---- MODULE Spec2Model ----
(***************************************************************************)
(* A model of the op-alloy (Mantle) derivation codecs: the TxDeposit RLP   *)
(* codec, the MantleDepositReceipt RLP codec, the L1 block info calldata   *)
(* codec, the deposit source hashes and the deposit log decoder.           *)
(*                                                                         *)
(* Bytes are naturals 0..255, byte strings are sequences of bytes.  Fixed  *)
(* width integers (u32, u64, u128, U256) are kept as big-endian byte       *)
(* strings of their width, so that no value is cut to the model checker's  *)
(* integer range; lengths (usize) are naturals.  Option<T> is a sequence   *)
(* of length 0 (None) or 1 (Some), and so is TxKind (Create / Call).       *)
(*                                                                         *)
(* pc is the position of the call sequence, val the value or input drawn,  *)
(* buf the bytes written or read, res the result of the last decoder.      *)
(***************************************************************************)
EXTENDS Naturals, Sequences, FiniteSets

VARIABLES pc, val, buf, res

vars == <<pc, val, buf, res>>

(***************************************************************************)
(* Byte strings                                                            *)
(***************************************************************************)
Zeros(n) == [i \in 1..n |-> 0]

\* A value as big-endian bytes of width n.
LeftPad(n, s) == Zeros(n - Len(s)) \o s

Drop(s, n) == SubSeq(s, n + 1, Len(s))

Take(s, n) == SubSeq(s, 1, n)

\* r[a..b] of the source: the bytes at offsets a to b-1, counted from 0.
Slice(r, a, b) == SubSeq(r, a + 1, b)

SetByte(b, k, v) == [i \in 1..Len(b) |-> IF i = k THEN v ELSE b[i]]

IsZero(s) == \A i \in 1..Len(s) : s[i] = 0

\* A big-endian value without its leading zero bytes.
StripZeros(s) ==
    IF IsZero(s) THEN <<>>
    ELSE SubSeq(s, CHOOSE k \in 1..Len(s) : s[k] # 0 /\ \A j \in 1..(k - 1) : s[j] = 0,
                Len(s))

\* usize -> minimal big-endian bytes (lengths of the model stay below 2^24).
NatBytes(n) ==
    IF n < 256 THEN <<n>>
    ELSE IF n < 65536 THEN <<n \div 256, n % 256>>
    ELSE <<n \div 65536, (n \div 256) % 256, n % 256>>

\* Up to three big-endian bytes -> usize.
BeNat(s) ==
    IF Len(s) = 0 THEN 0
    ELSE IF Len(s) = 1 THEN s[1]
    ELSE IF Len(s) = 2 THEN s[1] * 256 + s[2]
    ELSE s[1] * 65536 + s[2] * 256 + s[3]

None == <<>>

Some(v) == <<v>>

IsSome(o) == Len(o) = 1

\* A decoder's result: the value and the unread rest of the buffer, or an error.
Ok(v, rest) == [ok |-> TRUE, val |-> v, rest |-> rest, err |-> "none"]

Err(e) == [ok |-> FALSE, val |-> <<>>, rest |-> <<>>, err |-> e]

NoResult == Err("none")

\* The ? operator in a sequence of field decodes: acc holds the fields read
\* so far and the unread buffer, r is the result of decoding the next field.
Then(acc, r) ==
    IF ~acc.ok THEN acc
    ELSE IF ~r.ok THEN Err(r.err)
    ELSE Ok(Append(acc.val, r.val), r.rest)

EMPTY_STRING_CODE == 128

(***************************************************************************)
(* alloy_rlp: headers                                                      *)
(***************************************************************************)
length_of_length(payload_length) ==
    IF payload_length < 56 THEN 1 ELSE 1 + Len(NatBytes(payload_length))

HeaderEncode(list, payload_length) ==
    IF payload_length < 56
    THEN <<(IF list THEN 192 ELSE EMPTY_STRING_CODE) + payload_length>>
    ELSE <<(IF list THEN 247 ELSE 183) + Len(NatBytes(payload_length))>>
         \o NatBytes(payload_length)

HeaderLengthWithPayload(payload_length) ==
    length_of_length(payload_length) + payload_length

\* Header::decode: the header {list, payload_length} and the bytes after it.
HeaderDecode(b) ==
    LET header(list, n, rest) ==
            IF Len(rest) < n THEN Err("InputTooShort")
            ELSE Ok([list |-> list, payload_length |-> n], rest)
        short(n, rest) ==
            IF n = 1 /\ rest = <<>> THEN Err("InputTooShort")
            ELSE IF n = 1 /\ rest[1] < 128 THEN Err("NonCanonicalSingleByte")
            ELSE header(FALSE, n, rest)
        sized(list, n, rest) ==
            IF n < 56 THEN Err("NonCanonicalSize") ELSE header(list, n, rest)
        long(list, lol, rest) ==
            IF Len(rest) < lol THEN Err("InputTooShort")
            ELSE IF rest[1] = 0 THEN Err("LeadingZero")
            ELSE IF lol > 3 THEN Err("InputTooShort")
            ELSE sized(list, BeNat(Take(rest, lol)), Drop(rest, lol))
    IN  IF b = <<>> THEN Err("InputTooShort")
        ELSE IF b[1] < 128 THEN header(FALSE, 1, b)
        ELSE IF b[1] <= 183 THEN short(b[1] - 128, Drop(b, 1))
        ELSE IF b[1] <= 191 THEN long(FALSE, b[1] - 183, Drop(b, 1))
        ELSE IF b[1] <= 247 THEN header(TRUE, b[1] - 192, Drop(b, 1))
        ELSE long(TRUE, b[1] - 247, Drop(b, 1))

\* Header::decode_bytes: the payload of a string (or list) header.
DecodeBytes(b, is_list) ==
    LET payload(h) ==
            IF ~h.ok THEN h
            ELSE IF h.val.list # is_list
                 THEN Err(IF is_list THEN "UnexpectedString" ELSE "UnexpectedList")
            ELSE Ok(Take(h.rest, h.val.payload_length), Drop(h.rest, h.val.payload_length))
    IN  payload(HeaderDecode(b))

(***************************************************************************)
(* alloy_rlp: values                                                       *)
(***************************************************************************)
\* <[u8]>::encode and length
BytesEncode(s) ==
    IF Len(s) = 1 /\ s[1] < 128 THEN s ELSE HeaderEncode(FALSE, Len(s)) \o s

BytesLength(s) ==
    IF Len(s) = 1 /\ s[1] < 128 THEN 1 ELSE Len(s) + length_of_length(Len(s))

BytesDecode(b) == DecodeBytes(b, FALSE)

\* uN::encode of a value kept as big-endian bytes of its width
UintEncode(v) ==
    LET encode(s) ==
            IF s = <<>> THEN <<EMPTY_STRING_CODE>>
            ELSE IF Len(s) = 1 /\ s[1] < 128 THEN s
            ELSE <<EMPTY_STRING_CODE + Len(s)>> \o s
    IN  encode(StripZeros(v))

UintLength(v) ==
    LET length(s) == IF s = <<>> \/ (Len(s) = 1 /\ s[1] < 128) THEN 1 ELSE 1 + Len(s)
    IN  length(StripZeros(v))

\* static_left_pad::<N> after Header::decode_bytes
UintDecode(b, width) ==
    LET static_left_pad(r) ==
            IF ~r.ok THEN r
            ELSE IF Len(r.val) > width THEN Err("Overflow")
            ELSE IF r.val = <<>> THEN Ok(Zeros(width), r.rest)
            ELSE IF r.val[1] = 0 THEN Err("LeadingZero")
            ELSE Ok(LeftPad(width, r.val), r.rest)
    IN  static_left_pad(DecodeBytes(b, FALSE))

\* ruint's Uint<256, 4>::decode checks the leading zero before the width
U256Decode(b) ==
    LET from_be(r) ==
            IF ~r.ok THEN r
            ELSE IF r.val # <<>> /\ r.val[1] = 0 THEN Err("LeadingZero")
            ELSE IF Len(r.val) > 32 THEN Err("Overflow")
            ELSE Ok(LeftPad(32, r.val), r.rest)
    IN  from_be(DecodeBytes(b, FALSE))

BoolEncode(x) == IF x THEN <<1>> ELSE <<EMPTY_STRING_CODE>>

BoolLength(x) == 1

BoolDecode(b) ==
    LET from_u8(r) ==
            IF ~r.ok THEN r
            ELSE IF r.val = <<0>> THEN Ok(FALSE, r.rest)
            ELSE IF r.val = <<1>> THEN Ok(TRUE, r.rest)
            ELSE Err("Custom")
    IN  from_u8(UintDecode(b, 1))

\* FixedBytes<N>::decode (B256, Address, Bloom)
FixedDecode(b, n) ==
    LET fixed(r) ==
            IF ~r.ok THEN r
            ELSE IF Len(r.val) # n THEN Err("UnexpectedLength")
            ELSE r
    IN  fixed(DecodeBytes(b, FALSE))

Create == <<>>

Call(a) == <<a>>

TxKindEncode(to) ==
    IF to = Create THEN <<EMPTY_STRING_CODE>> ELSE BytesEncode(to[1])

TxKindLength(to) == IF to = Create THEN 1 ELSE BytesLength(to[1])

TxKindDecode(b) ==
    LET call(r) == IF ~r.ok THEN r ELSE Ok(Call(r.val), r.rest)
    IN  IF b = <<>> THEN Err("InputTooShort")
        ELSE IF b[1] = EMPTY_STRING_CODE THEN Ok(Create, Drop(b, 1))
        ELSE call(FixedDecode(b, 20))

(***************************************************************************)
(* TxDeposit (crates/consensus/src/transaction/deposit.rs)                 *)
(***************************************************************************)
TxDeposit(source_hash, from, to, mint, value, gas_limit, is_system_transaction, eth_value, input, eth_tx_value) ==
    [source_hash |-> source_hash, from |-> from, to |-> to, mint |-> mint,
     value |-> value, gas_limit |-> gas_limit,
     is_system_transaction |-> is_system_transaction,
     eth_value |-> eth_value, input |-> input, eth_tx_value |-> eth_tx_value]

DEPOSIT_TX_TYPE == 126

\* An absent mint / eth_value is written as the empty string.
EncodeU128OrEmpty(o) ==
    IF IsSome(o) THEN UintEncode(o[1]) ELSE <<EMPTY_STRING_CODE>>

\* An absent eth_tx_value is not written at all.
EncodeU128OrOmit(o) ==
    IF IsSome(o) THEN UintEncode(o[1]) ELSE <<>>

rlp_encode_fields(tx) ==
    BytesEncode(tx.source_hash)
    \o BytesEncode(tx.from)
    \o TxKindEncode(tx.to)
    \o EncodeU128OrEmpty(tx.mint)
    \o UintEncode(tx.value)
    \o UintEncode(tx.gas_limit)
    \o BoolEncode(tx.is_system_transaction)
    \o EncodeU128OrEmpty(tx.eth_value)
    \o BytesEncode(tx.input)
    \o EncodeU128OrOmit(tx.eth_tx_value)

rlp_encoded_fields_length(tx) ==
    BytesLength(tx.source_hash)
    + BytesLength(tx.from)
    + TxKindLength(tx.to)
    + (IF IsSome(tx.mint) THEN UintLength(tx.mint[1]) ELSE 1)
    + UintLength(tx.value)
    + UintLength(tx.gas_limit)
    + BoolLength(tx.is_system_transaction)
    + BytesLength(tx.input)
    + (IF IsSome(tx.eth_value) THEN UintLength(tx.eth_value[1]) ELSE 1)
    + (IF IsSome(tx.eth_tx_value) THEN UintLength(tx.eth_tx_value[1]) ELSE 0)

decode_u128_from_rlp(b) ==
    LET some(r) == IF ~r.ok THEN r ELSE Ok(Some(r.val), r.rest)
    IN  IF b = <<>> THEN Err("InputTooShort")
        ELSE IF b[1] = EMPTY_STRING_CODE THEN Ok(None, Drop(b, 1))
        ELSE some(UintDecode(b, 16))

decode_optional_u128_from_rlp(b) ==
    IF b = <<>> THEN Ok(None, b) ELSE decode_u128_from_rlp(b)

\* The fields in wire order, each read from where the one before it ended.
rlp_decode_fields(b) ==
    LET f_source_hash(a) == Then(a, FixedDecode(a.rest, 32))
        f_from(a) == Then(a, FixedDecode(a.rest, 20))
        f_to(a) == Then(a, TxKindDecode(a.rest))
        f_mint(a) == Then(a, decode_u128_from_rlp(a.rest))
        f_value(a) == Then(a, U256Decode(a.rest))
        f_gas_limit(a) == Then(a, UintDecode(a.rest, 8))
        f_is_system_transaction(a) == Then(a, BoolDecode(a.rest))
        f_eth_value(a) == Then(a, decode_u128_from_rlp(a.rest))
        f_input(a) == Then(a, BytesDecode(a.rest))
        f_eth_tx_value(a) == Then(a, decode_optional_u128_from_rlp(a.rest))
        this(a) ==
            IF ~a.ok THEN a
            ELSE Ok(TxDeposit(a.val[1], a.val[2], a.val[3], a.val[4], a.val[5],
                              a.val[6], a.val[7], a.val[8], a.val[9], a.val[10]), a.rest)
    IN  this(f_eth_tx_value(f_input(f_eth_value(f_is_system_transaction(f_gas_limit(
            f_value(f_mint(f_to(f_from(f_source_hash(Ok(<<>>, b))))))))))))

rlp_decode(b) ==
    LET consumed(h, this) ==
            IF ~this.ok THEN this
            ELSE IF Len(this.rest) + h.val.payload_length # Len(h.rest)
                 THEN Err("UnexpectedLength")
            ELSE this
        payload(h) ==
            IF ~h.ok THEN h
            ELSE IF ~h.val.list THEN Err("UnexpectedString")
            ELSE IF h.val.payload_length > Len(h.rest) THEN Err("InputTooShort")
            ELSE consumed(h, rlp_decode_fields(h.rest))
    IN  payload(HeaderDecode(b))

rlp_encode(tx) ==
    HeaderEncode(TRUE, rlp_encoded_fields_length(tx)) \o rlp_encode_fields(tx)

rlp_encoded_length(tx) == HeaderLengthWithPayload(rlp_encoded_fields_length(tx))

eip2718_encoded_length(tx) == rlp_encoded_length(tx) + 1

eip2718_encode(tx) == <<DEPOSIT_TX_TYPE>> \o rlp_encode(tx)

network_encoded_length(tx) == HeaderLengthWithPayload(eip2718_encoded_length(tx))

network_encode(tx) ==
    HeaderEncode(FALSE, eip2718_encoded_length(tx)) \o eip2718_encode(tx)

(***************************************************************************)
(* The TxDeposit codec as a state machine: a transaction is drawn, one of  *)
(* the encoders writes it to buf, and the matching decoder reads buf.      *)
(***************************************************************************)
LongInputLen == 56

\* source_hash, from, value, gas_limit and is_system_transaction are drawn
\* together, the other fields one by one.
TxValues ==
    { TxDeposit(b[1], b[2], to, mint, b[3], b[4], b[5], ev, inp, etv) :
        b \in { <<Zeros(32), Zeros(20), Zeros(32), Zeros(8), FALSE>>,
                <<LeftPad(32, <<42>>), [i \in 1..20 |-> 17], LeftPad(32, <<3, 232>>),
                  LeftPad(8, <<195, 80>>), TRUE>>,
                <<[i \in 1..32 |-> 17 * ((i % 15) + 1)], LeftPad(20, <<255>>),
                  [i \in 1..32 |-> 255], [i \in 1..8 |-> 255], FALSE>> },
        to \in {Create, Call(Zeros(20)), Call(LeftPad(20, <<255>>))},
        mint \in {None, Some(Zeros(16)), Some(LeftPad(16, <<100>>)),
                  Some(LeftPad(16, <<128>>)), Some([i \in 1..16 |-> 255])},
        ev \in {None, Some(Zeros(16)), Some(LeftPad(16, <<1, 0>>))},
        inp \in {<<>>, <<1>>, <<128>>, <<1, 2, 3>>, Zeros(55), Zeros(LongInputLen)},
        etv \in {None, Some(Zeros(16)), Some(LeftPad(16, <<1, 0>>))} }

TxInit ==
    /\ pc = "start"
    /\ val \in TxValues
    /\ buf = <<>>
    /\ res = NoResult

TxRlpEncode ==
    /\ pc = "start"
    /\ buf' = rlp_encode(val)
    /\ pc' = "rlp_encoded"
    /\ UNCHANGED <<val, res>>

TxRlpDecode ==
    /\ pc = "rlp_encoded"
    /\ res' = rlp_decode(buf)
    /\ pc' = "rlp_decoded"
    /\ UNCHANGED <<val, buf>>

TxRlpEncodeFields ==
    /\ pc = "start"
    /\ buf' = rlp_encode_fields(val)
    /\ pc' = "fields_encoded"
    /\ UNCHANGED <<val, res>>

TxRlpDecodeFields ==
    /\ pc = "fields_encoded"
    /\ res' = rlp_decode_fields(buf)
    /\ pc' = "fields_decoded"
    /\ UNCHANGED <<val, buf>>

\* rlp_decode on a buffer made from the encoding in buf: the encoding
\* followed by further bytes, the encoding without its last byte, the fields
\* under a string header, and the fields and one more byte under a list header
\* of that length.
TxRlpDecodeStream ==
    /\ pc = "rlp_encoded"
    /\ \E s \in {[shape |-> "followed", bytes |-> buf \o e, extra |-> e] :
                    e \in {<<128>>, <<5>>, <<192>>, <<129, 200, 7>>}}
                 \cup {[shape |-> "cut", bytes |-> Take(buf, Len(buf) - 1), extra |-> <<>>],
                       [shape |-> "string",
                        bytes |-> HeaderEncode(FALSE, rlp_encoded_fields_length(val))
                                  \o rlp_encode_fields(val),
                        extra |-> <<>>],
                       [shape |-> "longer",
                        bytes |-> HeaderEncode(TRUE, rlp_encoded_fields_length(val) + 1)
                                  \o rlp_encode_fields(val) \o <<5>>,
                        extra |-> <<>>]} :
           /\ buf' = s
           /\ res' = rlp_decode(s.bytes)
    /\ pc' = "stream_decoded"
    /\ UNCHANGED val

TxEip2718Encode ==
    /\ pc = "start"
    /\ buf' = eip2718_encode(val)
    /\ pc' = "eip2718_encoded"
    /\ UNCHANGED <<val, res>>

TxNetworkEncode ==
    /\ pc = "start"
    /\ buf' = network_encode(val)
    /\ pc' = "network_encoded"
    /\ UNCHANGED <<val, res>>

\* C1: every TxDeposit, Some(0) fields included, is returned unchanged by
\* rlp_decode after rlp_encode and by rlp_decode_fields after rlp_encode_fields.
C1_RoundTrip ==
    pc \in {"rlp_decoded", "fields_decoded"} => (res.ok /\ res.val = val)

(***************************************************************************)
(* alloy_consensus::Receipt and alloy_primitives::Log, the base of the     *)
(* Mantle receipt: status, cumulative_gas_used, bloom, logs.               *)
(***************************************************************************)
RECURSIVE Concat(_)
Concat(ss) == IF ss = <<>> THEN <<>> ELSE ss[1] \o Concat(Drop(ss, 1))

RECURSIVE SumSeq(_)
SumSeq(ns) == IF ns = <<>> THEN 0 ELSE ns[1] + SumSeq(Drop(ns, 1))

Log(address, topics, data) == [address |-> address, topics |-> topics, data |-> data]

TopicsPayloadLength(topics) == SumSeq([i \in 1..Len(topics) |-> BytesLength(topics[i])])

LogPayloadLength(l) ==
    BytesLength(l.address)
    + HeaderLengthWithPayload(TopicsPayloadLength(l.topics))
    + BytesLength(l.data)

LogEncode(l) ==
    HeaderEncode(TRUE, LogPayloadLength(l))
    \o BytesEncode(l.address)
    \o HeaderEncode(TRUE, TopicsPayloadLength(l.topics))
    \o Concat([i \in 1..Len(l.topics) |-> BytesEncode(l.topics[i])])
    \o BytesEncode(l.data)

LogsPayloadLength(logs) ==
    SumSeq([i \in 1..Len(logs) |-> HeaderLengthWithPayload(LogPayloadLength(logs[i]))])

LogsLength(logs) == HeaderLengthWithPayload(LogsPayloadLength(logs))

LogsEncode(logs) ==
    HeaderEncode(TRUE, LogsPayloadLength(logs))
    \o Concat([i \in 1..Len(logs) |-> LogEncode(logs[i])])

\* Vec<B256>::decode: the items of a list payload, until it is used up.
RECURSIVE TopicsDecodeItems(_, _)
TopicsDecodeItems(b, acc) ==
    LET next(r) == IF ~r.ok THEN r ELSE TopicsDecodeItems(r.rest, Append(acc, r.val))
    IN  IF b = <<>> THEN Ok(acc, <<>>) ELSE next(FixedDecode(b, 32))

TopicsDecode(b) ==
    LET rest_of(p, items) == IF ~items.ok THEN items ELSE Ok(items.val, p.rest)
        items_of(p) == IF ~p.ok THEN p ELSE rest_of(p, TopicsDecodeItems(p.val, <<>>))
    IN  items_of(DecodeBytes(b, TRUE))

LogDecode(b) ==
    LET f_address(a) == Then(a, FixedDecode(a.rest, 20))
        f_topics(a) == Then(a, TopicsDecode(a.rest))
        f_data(a) == Then(a, BytesDecode(a.rest))
        log(h, a) ==
            IF ~a.ok THEN a
            ELSE IF h.val.payload_length # Len(h.rest) - Len(a.rest) THEN Err("Custom")
            ELSE Ok(Log(a.val[1], a.val[2], a.val[3]), a.rest)
        fields(h) ==
            IF ~h.ok THEN h ELSE log(h, f_data(f_topics(f_address(Ok(<<>>, h.rest)))))
    IN  fields(HeaderDecode(b))

\* Vec<Log>::decode
RECURSIVE LogsDecodeItems(_, _)
LogsDecodeItems(b, acc) ==
    LET next(r) == IF ~r.ok THEN r ELSE LogsDecodeItems(r.rest, Append(acc, r.val))
    IN  IF b = <<>> THEN Ok(acc, <<>>) ELSE next(LogDecode(b))

LogsDecode(b) ==
    LET rest_of(p, items) == IF ~items.ok THEN items ELSE Ok(items.val, p.rest)
        items_of(p) == IF ~p.ok THEN p ELSE rest_of(p, LogsDecodeItems(p.val, <<>>))
    IN  items_of(DecodeBytes(b, TRUE))

\* alloy_consensus::Eip658Value: the EIP-658 success flag of a receipt, or the
\* 32-byte post-state root that receipts carried before it.
Eip658(status) == <<"Eip658", status>>

PostState(root) == <<"PostState", root>>

Receipt(status, cumulative_gas_used, logs) ==
    [status |-> status, cumulative_gas_used |-> cumulative_gas_used, logs |-> logs]

ReceiptEncodedFieldsLengthWithBloom(inner, bloom) ==
    (IF inner.status[1] = "PostState" THEN BytesLength(inner.status[2])
     ELSE BoolLength(inner.status[2]))
    + UintLength(inner.cumulative_gas_used)
    + BytesLength(bloom)
    + LogsLength(inner.logs)

ReceiptEncodeFieldsWithBloom(inner, bloom) ==
    (IF inner.status[1] = "PostState" THEN BytesEncode(inner.status[2])
     ELSE BoolEncode(inner.status[2]))
    \o UintEncode(inner.cumulative_gas_used)
    \o BytesEncode(bloom)
    \o LogsEncode(inner.logs)

\* [receipt, logs_bloom] and the rest of the buffer
ReceiptDecodeFieldsWithBloom(b) ==
    LET \* Eip658Value::decode: a first byte 0xa0 opens a post-state root
        map(r, variant(_)) == IF ~r.ok THEN r ELSE Ok(variant(r.val), r.rest)
        status(b0) == IF b0 # <<>> /\ b0[1] = 160 THEN map(FixedDecode(b0, 32), PostState)
                      ELSE map(BoolDecode(b0), Eip658)
        f_status(a) == Then(a, status(a.rest))
        f_cumulative_gas_used(a) == Then(a, UintDecode(a.rest, 8))
        f_bloom(a) == Then(a, FixedDecode(a.rest, 256))
        f_logs(a) == Then(a, LogsDecode(a.rest))
        this(a) ==
            IF ~a.ok THEN a
            ELSE Ok([receipt |-> Receipt(a.val[1], a.val[2], a.val[4]),
                     logs_bloom |-> a.val[3]], a.rest)
    IN  this(f_logs(f_bloom(f_cumulative_gas_used(f_status(Ok(<<>>, b))))))

(***************************************************************************)
(* MantleDepositReceipt (crates/consensus/src/receipt/mantle.rs)           *)
(***************************************************************************)
MantleDepositReceipt(inner, deposit_nonce, deposit_receipt_version, l1_gas_price, l1_gas_used, l1_fee, token_ratio) ==
    [inner |-> inner, deposit_nonce |-> deposit_nonce,
     deposit_receipt_version |-> deposit_receipt_version,
     l1_gas_price |-> l1_gas_price, l1_gas_used |-> l1_gas_used,
     l1_fee |-> l1_fee, token_ratio |-> token_ratio]

\* Option::map_or(0, |x| x.length())
OptLength(o) == IF IsSome(o) THEN UintLength(o[1]) ELSE 0

\* The length with the newest tail field, token_ratio, left out of the sum.
rlp_encoded_fields_length_without_ratio(r, bloom) ==
    ReceiptEncodedFieldsLengthWithBloom(r.inner, bloom)
    + OptLength(r.deposit_nonce)
    + OptLength(r.deposit_receipt_version)
    + OptLength(r.l1_gas_price)
    + OptLength(r.l1_gas_used)
    + OptLength(r.l1_fee)

rlp_encoded_fields_length_with_bloom(r, bloom) ==
    ReceiptEncodedFieldsLengthWithBloom(r.inner, bloom)
    + OptLength(r.deposit_nonce)
    + OptLength(r.deposit_receipt_version)
    + OptLength(r.l1_gas_price)
    + OptLength(r.l1_gas_used)
    + OptLength(r.l1_fee)
    + OptLength(r.token_ratio)

rlp_encode_fields_with_bloom(r, bloom) ==
    ReceiptEncodeFieldsWithBloom(r.inner, bloom)
    \o EncodeU128OrOmit(r.deposit_nonce)
    \o EncodeU128OrOmit(r.deposit_receipt_version)
    \o EncodeU128OrOmit(r.l1_gas_price)
    \o EncodeU128OrOmit(r.l1_gas_used)
    \o EncodeU128OrOmit(r.l1_fee)
    \o EncodeU128OrOmit(r.token_ratio)

rlp_header_with_bloom(r, bloom) ==
    [list |-> TRUE, payload_length |-> rlp_encoded_fields_length_with_bloom(r, bloom)]

\* (!buf.is_empty()).then(|| Decodable::decode(buf)).transpose()?
DecodeIfNotEmpty(b, width) ==
    LET some(r) == IF ~r.ok THEN r ELSE Ok(Some(r.val), r.rest)
    IN  IF b = <<>> THEN Ok(None, b) ELSE some(UintDecode(b, width))

\* The decoder with l1_gas_price and l1_gas_used stored in each other's place.
rlp_decode_fields_with_bloom_swapped(b) ==
    LET f_inner(a) == Then(a, ReceiptDecodeFieldsWithBloom(a.rest))
        f_deposit_nonce(a) == Then(a, DecodeIfNotEmpty(a.rest, 8))
        f_deposit_receipt_version(a) == Then(a, DecodeIfNotEmpty(a.rest, 8))
        f_l1_gas_price(a) == Then(a, DecodeIfNotEmpty(a.rest, 16))
        f_l1_gas_used(a) == Then(a, DecodeIfNotEmpty(a.rest, 16))
        f_l1_fee(a) == Then(a, DecodeIfNotEmpty(a.rest, 16))
        f_token_ratio(a) == Then(a, DecodeIfNotEmpty(a.rest, 16))
        this(a) ==
            IF ~a.ok THEN a
            ELSE Ok([receipt |-> MantleDepositReceipt(a.val[1].receipt, a.val[2], a.val[3],
                                                      a.val[5], a.val[4], a.val[6], a.val[7]),
                     logs_bloom |-> a.val[1].logs_bloom], a.rest)
    IN  this(f_token_ratio(f_l1_fee(f_l1_gas_used(f_l1_gas_price(
            f_deposit_receipt_version(f_deposit_nonce(f_inner(Ok(<<>>, b)))))))))

\* The inner receipt and then the six optional fields in wire order.
rlp_decode_fields_with_bloom(b) ==
    LET f_inner(a) == Then(a, ReceiptDecodeFieldsWithBloom(a.rest))
        f_deposit_nonce(a) == Then(a, DecodeIfNotEmpty(a.rest, 8))
        f_deposit_receipt_version(a) == Then(a, DecodeIfNotEmpty(a.rest, 8))
        f_l1_gas_price(a) == Then(a, DecodeIfNotEmpty(a.rest, 16))
        f_l1_gas_used(a) == Then(a, DecodeIfNotEmpty(a.rest, 16))
        f_l1_fee(a) == Then(a, DecodeIfNotEmpty(a.rest, 16))
        f_token_ratio(a) == Then(a, DecodeIfNotEmpty(a.rest, 16))
        this(a) ==
            IF ~a.ok THEN a
            ELSE Ok([receipt |-> MantleDepositReceipt(a.val[1].receipt, a.val[2], a.val[3],
                                                      a.val[4], a.val[5], a.val[6], a.val[7]),
                     logs_bloom |-> a.val[1].logs_bloom], a.rest)
    IN  this(f_token_ratio(f_l1_fee(f_l1_gas_used(f_l1_gas_price(
            f_deposit_receipt_version(f_deposit_nonce(f_inner(Ok(<<>>, b)))))))))

rlp_encoded_length_with_bloom(r, bloom) ==
    HeaderLengthWithPayload(rlp_header_with_bloom(r, bloom).payload_length)

rlp_encode_with_bloom(r, bloom) ==
    HeaderEncode(TRUE, rlp_header_with_bloom(r, bloom).payload_length)
    \o rlp_encode_fields_with_bloom(r, bloom)

\* A variant of rlp_decode_with_bloom that reads the fields from the whole
\* buffer and compares the consumed length with the payload length.
rlp_decode_with_bloom_unscoped(b) ==
    LET consumed(h, this) ==
            IF ~this.ok THEN this
            ELSE IF Len(this.rest) + h.val.payload_length # Len(h.rest)
                 THEN Err("UnexpectedLength")
            ELSE this
        payload(h) ==
            IF ~h.ok THEN h
            ELSE IF ~h.val.list THEN Err("UnexpectedString")
            ELSE IF Len(h.rest) < h.val.payload_length THEN Err("InputTooShort")
            ELSE consumed(h, rlp_decode_fields_with_bloom(h.rest))
    IN  payload(HeaderDecode(b))

\* The fields are read from the payload alone; the buffer then moves past it.
rlp_decode_with_bloom(b) ==
    LET consumed(h, this) ==
            IF ~this.ok THEN this
            ELSE IF this.rest # <<>> THEN Err("UnexpectedLength")
            ELSE Ok(this.val, Drop(h.rest, h.val.payload_length))
        payload(h) ==
            IF ~h.ok THEN h
            ELSE IF ~h.val.list THEN Err("UnexpectedString")
            ELSE IF Len(h.rest) < h.val.payload_length THEN Err("InputTooShort")
            ELSE consumed(h, rlp_decode_fields_with_bloom(
                                 Take(h.rest, h.val.payload_length)))
    IN  payload(HeaderDecode(b))

(***************************************************************************)
(* The receipt codec as a state machine.  Either a receipt and a bloom are *)
(* drawn, encoded and decoded again, or a wire payload is assembled from   *)
(* the base fields and a sequence of tail items (followed by the bytes of  *)
(* the outer stream) and decoded; the wire is also drawn without its last *)
(* byte, and with a string header (3 bytes, as the list header) in front   *)
(* of the payload.                                                         *)
(***************************************************************************)
MaxTailItems == 7

ReceiptValues ==
    { MantleDepositReceipt(inner, dn, dv, gp, gu, fee, ratio) :
        inner \in { Receipt(Eip658(FALSE), Zeros(8), <<>>),
                    Receipt(Eip658(TRUE), LeftPad(8, <<82, 8>>),
                            <<Log(LeftPad(20, <<255>>), <<>>, <<>>)>>),
                    Receipt(PostState(LeftPad(32, <<1, 2>>)), LeftPad(8, <<82, 8>>), <<>>),
                    Receipt(Eip658(TRUE), [i \in 1..8 |-> 255],
                            <<Log(Zeros(20), <<LeftPad(32, <<42>>), Zeros(32)>>, <<1, 2, 3>>),
                              Log([i \in 1..20 |-> 17], <<>>, <<7>>)>>) },
        dn \in {None, Some(Zeros(8)), Some(LeftPad(8, <<5>>))},
        dv \in {None, Some(Zeros(8)), Some(LeftPad(8, <<5>>))},
        gp \in {None, Some(LeftPad(16, <<1>>)), Some(LeftPad(16, <<1, 0, 0, 0, 0, 0, 0, 0, 0>>))},
        gu \in {None, Some(LeftPad(16, <<1>>)), Some(LeftPad(16, <<1, 0, 0, 0, 0, 0, 0, 0, 0>>))},
        fee \in {None, Some(LeftPad(16, <<1>>)), Some(LeftPad(16, <<1, 0, 0, 0, 0, 0, 0, 0, 0>>))},
        ratio \in {None, Some(LeftPad(16, <<1>>))} }

RECURSIVE SeqsUpTo(_, _)
SeqsUpTo(S, n) ==
    IF n = 0 THEN {<<>>}
    ELSE SeqsUpTo(S, n - 1)
         \cup {Append(q, x) : q \in {t \in SeqsUpTo(S, n - 1) : Len(t) = n - 1}, x \in S}

\* Tail items on the wire, each with its bytes (enc) and the big-endian value
\* they carry (v): up to MaxTailItems well-formed integers, and up to six
\* items of which one is malformed.
ItemSeqs ==
    SeqsUpTo({ [enc |-> <<128>>, v |-> <<>>], [enc |-> <<5>>, v |-> <<5>>],
               [enc |-> <<137, 1, 0, 0, 0, 0, 0, 0, 0, 0>>,
                v |-> <<1, 0, 0, 0, 0, 0, 0, 0, 0>>] }, MaxTailItems)
    \cup { [i \in 1..n |-> IF i = k THEN m ELSE [enc |-> <<5>>, v |-> <<5>>]] :
             n \in 1..6, k \in 1..6,
             m \in { [enc |-> <<129, 5>>, v |-> <<5>>], [enc |-> <<192>>, v |-> <<>>],
                     [enc |-> <<130, 0, 1>>, v |-> <<1>>] } }

\* The wire bytes: list header, base fields, tail items, and then the bytes
\* that follow the receipt in the outer stream.
RawWire(inner, bloom, items, extra) ==
    HeaderEncode(TRUE, Len(ReceiptEncodeFieldsWithBloom(inner, bloom))
                       + SumSeq([i \in 1..Len(items) |-> Len(items[i].enc)]))
    \o ReceiptEncodeFieldsWithBloom(inner, bloom)
    \o Concat([i \in 1..Len(items) |-> items[i].enc])
    \o extra

RcInit ==
    \/ /\ pc = "rc_start"
       /\ val \in {[receipt |-> r, bloom |-> b] :
                     r \in ReceiptValues,
                     b \in {Zeros(256), [i \in 1..256 |-> IF i % 64 = 1 THEN 128 ELSE 0]}}
       /\ buf = <<>>
       /\ res = NoResult
    \/ /\ pc = "rc_raw"
       /\ val \in {[inner |-> Receipt(Eip658(TRUE), LeftPad(8, <<82, 8>>), <<>>),
                    bloom |-> Zeros(256), items |-> q, extra |-> e, shape |-> "list"] :
                     q \in ItemSeqs, e \in {<<>>, <<128>>, <<5, 5>>}}
                  \cup
                  {[inner |-> Receipt(Eip658(TRUE), LeftPad(8, <<82, 8>>), <<>>),
                    bloom |-> Zeros(256), items |-> q, extra |-> <<>>, shape |-> sh] :
                     q \in {t \in ItemSeqs : Len(t) <= 2}, sh \in {"string", "cut"}}
                  \cup
                  {[inner |-> Receipt(PostState(s), LeftPad(8, <<82, 8>>), <<>>),
                    bloom |-> Zeros(256), items |-> q, extra |-> sh[2], shape |-> sh[1]] :
                     s \in {Zeros(32), [i \in 1..32 |-> 1]},
                     q \in {t \in ItemSeqs : Len(t) <= 2},
                     sh \in {<<"list", <<>>>>, <<"list", <<5, 5>>>>,
                             <<"string", <<>>>>, <<"cut", <<>>>>}}
       /\ buf = IF val.shape = "list"
                THEN RawWire(val.inner, val.bloom, val.items, val.extra)
                ELSE IF val.shape = "cut"
                THEN Take(RawWire(val.inner, val.bloom, val.items, <<>>),
                          Len(RawWire(val.inner, val.bloom, val.items, <<>>)) - 1)
                ELSE HeaderEncode(FALSE, Len(RawWire(val.inner, val.bloom, val.items, <<>>)) - 3)
                     \o Drop(RawWire(val.inner, val.bloom, val.items, <<>>), 3)
       /\ res = NoResult

RcEncode ==
    /\ pc = "rc_start"
    /\ buf' = rlp_encode_with_bloom(val.receipt, val.bloom)
    /\ pc' = "rc_encoded"
    /\ UNCHANGED <<val, res>>

RcEncodeFields ==
    /\ pc = "rc_start"
    /\ buf' = rlp_encode_fields_with_bloom(val.receipt, val.bloom)
    /\ pc' = "rc_fields_encoded"
    /\ UNCHANGED <<val, res>>

RcDecode ==
    /\ pc = "rc_encoded"
    /\ res' = rlp_decode_with_bloom(buf)
    /\ pc' = "rc_decoded"
    /\ UNCHANGED <<val, buf>>

RcDecodeRaw ==
    /\ pc = "rc_raw"
    /\ res' = rlp_decode_with_bloom(buf)
    /\ pc' = "rc_raw_decoded"
    /\ UNCHANGED <<val, buf>>

(***************************************************************************)
(* Both RLP codecs in one specification.                                   *)
(***************************************************************************)
CodecInit == TxInit \/ RcInit

CodecNext ==
    \/ TxRlpEncode
    \/ TxRlpDecode
    \/ TxRlpEncodeFields
    \/ TxRlpDecodeFields
    \/ TxRlpDecodeStream
    \/ TxEip2718Encode
    \/ TxNetworkEncode
    \/ RcEncode
    \/ RcEncodeFields
    \/ RcDecode
    \/ RcDecodeRaw

SpecCodec == CodecInit /\ [][CodecNext]_vars

\* C2: every receipt, sparse tails included, is returned unchanged (with its
\* bloom) by rlp_decode_with_bloom after rlp_encode_with_bloom.
C2_ReceiptRoundTrip ==
    pc = "rc_decoded" =>
        /\ res.ok
        /\ res.val.receipt = val.receipt
        /\ res.val.logs_bloom = val.bloom

\* C5: an accepted payload with N tail items decodes to a receipt whose first N
\* tail fields are present and carry the items in order, the other 6-N being
\* absent; no decoded receipt has a present tail field after an absent one.
C5_OptionalTailMonotone ==
    LET widths == <<8, 8, 16, 16, 16, 16>>
        tail(r) == <<r.deposit_nonce, r.deposit_receipt_version, r.l1_gas_price,
                     r.l1_gas_used, r.l1_fee, r.token_ratio>>
    IN  /\ (pc = "rc_raw_decoded" /\ res.ok) =>
               /\ Len(val.items) <= 6
               /\ \A i \in 1..6 :
                      tail(res.val.receipt)[i] =
                          IF i <= Len(val.items)
                          THEN Some(LeftPad(widths[i], val.items[i].v))
                          ELSE None
        /\ (pc \in {"rc_raw_decoded", "rc_decoded"} /\ res.ok) =>
               \A i \in 1..5 : ~IsSome(tail(res.val.receipt)[i]) =>
                                   ~IsSome(tail(res.val.receipt)[i + 1])

C5_Witness ==
    /\ pc = "rc_raw_decoded"
    /\ res.ok
    /\ Len(val.items) = 3
    /\ IsSome(res.val.receipt.l1_gas_price)
    /\ ~IsSome(res.val.receipt.l1_gas_used)

L1_INFO_TX_LEN_BEDROCK == 4 + 32 * 8

L1_INFO_TX_LEN_ECOTONE == 4 + 32 * 5

L1_INFO_TX_SELECTOR_BEDROCK == <<1, 93, 142, 185>>

L1_INFO_TX_SELECTOR_ECOTONE == <<68, 10, 94, 32>>

L1BlockInfoBedrock(number, time, base_fee, block_hash, sequence_number, batcher_address, l1_fee_overhead, l1_fee_scalar) ==
    [number |-> number, time |-> time, base_fee |-> base_fee,
     block_hash |-> block_hash, sequence_number |-> sequence_number,
     batcher_address |-> batcher_address, l1_fee_overhead |-> l1_fee_overhead,
     l1_fee_scalar |-> l1_fee_scalar]

L1BlockInfoEcotone(number, time, base_fee, block_hash, sequence_number, batcher_address, blob_base_fee, blob_base_fee_scalar, base_fee_scalar) ==
    [number |-> number, time |-> time, base_fee |-> base_fee,
     block_hash |-> block_hash, sequence_number |-> sequence_number,
     batcher_address |-> batcher_address, blob_base_fee |-> blob_base_fee,
     blob_base_fee_scalar |-> blob_base_fee_scalar,
     base_fee_scalar |-> base_fee_scalar]

Bedrock(info) == [variant |-> "Bedrock", info |-> info]

Ecotone(info) == [variant |-> "Ecotone", info |-> info]

L1BlockInfoBedrock_encode_calldata(x) ==
    L1_INFO_TX_SELECTOR_BEDROCK
    \o LeftPad(32, x.number)
    \o LeftPad(32, x.time)
    \o LeftPad(32, x.base_fee)
    \o x.block_hash
    \o LeftPad(32, x.sequence_number)
    \o LeftPad(32, x.batcher_address)
    \o x.l1_fee_overhead
    \o x.l1_fee_scalar

\* The decoder with sequence_number read from the word of time.
L1BlockInfoBedrock_decode_calldata_wrong_word(r) ==
    IF Len(r) # L1_INFO_TX_LEN_BEDROCK
    THEN Err(<<"InvalidLength", "Bedrock", L1_INFO_TX_LEN_BEDROCK, Len(r)>>)
    ELSE Ok(L1BlockInfoBedrock(Slice(r, 28, 36), Slice(r, 60, 68), Slice(r, 92, 100),
                               Slice(r, 100, 132), Slice(r, 60, 68), Slice(r, 176, 196),
                               Slice(r, 196, 228), Slice(r, 228, 260)), <<>>)

L1BlockInfoBedrock_decode_calldata(r) ==
    IF Len(r) # L1_INFO_TX_LEN_BEDROCK
    THEN Err(<<"InvalidLength", "Bedrock", L1_INFO_TX_LEN_BEDROCK, Len(r)>>)
    ELSE Ok(L1BlockInfoBedrock(Slice(r, 28, 36), Slice(r, 60, 68), Slice(r, 92, 100),
                               Slice(r, 100, 132), Slice(r, 156, 164), Slice(r, 176, 196),
                               Slice(r, 196, 228), Slice(r, 228, 260)), <<>>)

L1BlockInfoEcotone_encode_calldata(x) ==
    L1_INFO_TX_SELECTOR_ECOTONE
    \o x.base_fee_scalar
    \o x.blob_base_fee_scalar
    \o x.sequence_number
    \o x.time
    \o x.number
    \o LeftPad(32, x.base_fee)
    \o LeftPad(32, x.blob_base_fee)
    \o x.block_hash
    \o LeftPad(32, x.batcher_address)

\* A variant of the Ecotone decoder that reads the first 164 bytes of a longer
\* input.
L1BlockInfoEcotone_decode_calldata_truncating(r) ==
    IF Len(r) < L1_INFO_TX_LEN_ECOTONE
    THEN Err(<<"InvalidLength", "Ecotone", L1_INFO_TX_LEN_ECOTONE, Len(r)>>)
    ELSE Ok(L1BlockInfoEcotone(Slice(r, 28, 36), Slice(r, 20, 28), Slice(r, 60, 68),
                               Slice(r, 100, 132), Slice(r, 12, 20), Slice(r, 144, 164),
                               Slice(r, 84, 100), Slice(r, 8, 12), Slice(r, 4, 8)), <<>>)

L1BlockInfoEcotone_decode_calldata(r) ==
    IF Len(r) # L1_INFO_TX_LEN_ECOTONE
    THEN Err(<<"InvalidLength", "Ecotone", L1_INFO_TX_LEN_ECOTONE, Len(r)>>)
    ELSE Ok(L1BlockInfoEcotone(Slice(r, 28, 36), Slice(r, 20, 28), Slice(r, 60, 68),
                               Slice(r, 100, 132), Slice(r, 12, 20), Slice(r, 144, 164),
                               Slice(r, 84, 100), Slice(r, 8, 12), Slice(r, 4, 8)), <<>>)

L1BlockInfoTx_encode_calldata(tx) ==
    IF tx.variant = "Bedrock" THEN L1BlockInfoBedrock_encode_calldata(tx.info)
    ELSE L1BlockInfoEcotone_encode_calldata(tx.info)

\* A variant of L1BlockInfoTx::decode_calldata that chooses the decoder by
\* the length of the input.
L1BlockInfoTx_decode_calldata_by_length(r) ==
    LET bedrock(x) ==
            IF x.ok THEN Ok(Bedrock(x.val), <<>>)
            ELSE Err(<<"ParseError", "Bedrock decode error", x.err>>)
        ecotone(x) ==
            IF x.ok THEN Ok(Ecotone(x.val), <<>>)
            ELSE Err(<<"ParseError", "Ecotone decode error", x.err>>)
    IN  IF Len(r) < 4 THEN Err(<<"ParseError", "Slice out of range">>)
        ELSE IF Len(r) = L1_INFO_TX_LEN_BEDROCK
             THEN bedrock(L1BlockInfoBedrock_decode_calldata(r))
        ELSE IF Len(r) = L1_INFO_TX_LEN_ECOTONE
             THEN ecotone(L1BlockInfoEcotone_decode_calldata(r))
        ELSE Err(<<"InvalidSelector">>)

\* .map(Self::Bedrock) and .map_err(|e| DecodeError::ParseError(format!(
\* "Bedrock decode error: {}", e))): an error of the variant's decoder comes
\* back as a ParseError whose message holds the text of that error.
L1BlockInfoTx_decode_calldata(r) ==
    LET bedrock(x) ==
            IF x.ok THEN Ok(Bedrock(x.val), <<>>)
            ELSE Err(<<"ParseError", "Bedrock decode error", x.err>>)
        ecotone(x) ==
            IF x.ok THEN Ok(Ecotone(x.val), <<>>)
            ELSE Err(<<"ParseError", "Ecotone decode error", x.err>>)
    IN  IF Len(r) < 4 THEN Err(<<"ParseError", "Slice out of range">>)
        ELSE IF Slice(r, 0, 4) = L1_INFO_TX_SELECTOR_BEDROCK
             THEN bedrock(L1BlockInfoBedrock_decode_calldata(r))
        ELSE IF Slice(r, 0, 4) = L1_INFO_TX_SELECTOR_ECOTONE
             THEN ecotone(L1BlockInfoEcotone_decode_calldata(r))
        ELSE Err(<<"InvalidSelector">>)

(***************************************************************************)
(* The calldata codec as a state machine.  Either an L1BlockInfoTx is      *)
(* drawn, encoded and decoded by its selector, or a byte string is drawn   *)
(* and handed to one of the decoders, whose result is encoded again.       *)
(***************************************************************************)
L1BlockInfoTxValues ==
    { Bedrock(L1BlockInfoBedrock(n, t, LeftPad(8, <<7>>), h, sq, a, ov, sc)) :
        n \in {Zeros(8), [i \in 1..8 |-> 255]},
        t \in {Zeros(8), LeftPad(8, <<101, 2, 3, 4>>)},
        h \in {Zeros(32), [i \in 1..32 |-> 17 * ((i % 15) + 1)]},
        sq \in {Zeros(8), LeftPad(8, <<4>>)},
        a \in {Zeros(20), [i \in 1..20 |-> 17]},
        ov \in {Zeros(32), [i \in 1..32 |-> 255]},
        sc \in {Zeros(32), LeftPad(32, <<15, 66, 64>>)} }
    \cup
    { Ecotone(L1BlockInfoEcotone(n, t, bf, h, LeftPad(8, <<4>>), a, bbf, bs, s)) :
        n \in {Zeros(8), [i \in 1..8 |-> 255]},
        t \in {Zeros(8), LeftPad(8, <<101, 2, 3, 4>>)},
        bf \in {Zeros(8), LeftPad(8, <<7>>)},
        h \in {Zeros(32), [i \in 1..32 |-> 17 * ((i % 15) + 1)]},
        a \in {Zeros(20), [i \in 1..20 |-> 17]},
        bbf \in {Zeros(16), [i \in 1..16 |-> 255]},
        bs \in {Zeros(4), LeftPad(4, <<12, 93, 0>>)},
        s \in {Zeros(4), LeftPad(4, <<5, 57>>)} }

\* The encodings of two values of each variant, the same with one byte
\* changed, and strings of other lengths.
RawCalldataValues ==
    LET canonical ==
        { L1BlockInfoBedrock_encode_calldata(
              L1BlockInfoBedrock(Zeros(8), Zeros(8), Zeros(8), Zeros(32), Zeros(8),
                                 Zeros(20), Zeros(32), Zeros(32))),
          L1BlockInfoBedrock_encode_calldata(
              L1BlockInfoBedrock(LeftPad(8, <<1, 2>>), LeftPad(8, <<101, 2, 3, 4>>), LeftPad(8, <<7>>),
                                 [i \in 1..32 |-> 17], LeftPad(8, <<4>>), [i \in 1..20 |-> 34],
                                 LeftPad(32, <<8, 52>>), LeftPad(32, <<15, 66, 64>>))),
          L1BlockInfoEcotone_encode_calldata(
              L1BlockInfoEcotone(Zeros(8), Zeros(8), Zeros(8), Zeros(32), Zeros(8),
                                 Zeros(20), Zeros(16), Zeros(4), Zeros(4))),
          L1BlockInfoEcotone_encode_calldata(
              L1BlockInfoEcotone(LeftPad(8, <<1, 2>>), LeftPad(8, <<101, 2, 3, 4>>), LeftPad(8, <<7>>),
                                 [i \in 1..32 |-> 17], LeftPad(8, <<4>>), [i \in 1..20 |-> 34],
                                 LeftPad(16, <<9>>), LeftPad(4, <<12, 93, 0>>), LeftPad(4, <<5, 57>>))) }
    IN  canonical
        \cup {SetByte(b, k, v) : b \in canonical, k \in 1..L1_INFO_TX_LEN_ECOTONE,
                                 v \in {1, 255}}
        \cup {SetByte(b, k, 1) : b \in {c \in canonical : Len(c) = L1_INFO_TX_LEN_BEDROCK},
                                 k \in L1_INFO_TX_LEN_ECOTONE..L1_INFO_TX_LEN_BEDROCK}
        \cup UNION {{Take(b, n) : n \in {m \in {0, 3, 4, 163, 164, 259} : m < Len(b)}} :
                       b \in canonical}
        \cup {b \o <<0>> : b \in canonical}

L1Init ==
    \/ /\ pc = "l1_start"
       /\ val \in L1BlockInfoTxValues
       /\ buf = <<>>
       /\ res = NoResult
    \/ /\ pc = "l1_raw"
       /\ val \in {[raw |-> b] : b \in RawCalldataValues}
       /\ buf = val.raw
       /\ res = NoResult

L1Encode ==
    /\ pc = "l1_start"
    /\ buf' = L1BlockInfoTx_encode_calldata(val)
    /\ pc' = "l1_encoded"
    /\ UNCHANGED <<val, res>>

L1Decode ==
    /\ pc = "l1_encoded"
    /\ res' = L1BlockInfoTx_decode_calldata(buf)
    /\ pc' = "l1_decoded"
    /\ UNCHANGED <<val, buf>>

L1DecodeRaw ==
    /\ pc = "l1_raw"
    /\ res' = L1BlockInfoTx_decode_calldata(buf)
    /\ pc' = "l1_raw_decoded"
    /\ UNCHANGED <<val, buf>>

L1DecodeRawBedrock ==
    /\ pc = "l1_raw"
    /\ res' = L1BlockInfoBedrock_decode_calldata(buf)
    /\ pc' = "l1_raw_bedrock"
    /\ UNCHANGED <<val, buf>>

L1DecodeRawEcotone ==
    /\ pc = "l1_raw"
    /\ res' = L1BlockInfoEcotone_decode_calldata(buf)
    /\ pc' = "l1_raw_ecotone"
    /\ UNCHANGED <<val, buf>>

L1ReencodeBedrock ==
    /\ pc = "l1_raw_bedrock"
    /\ res.ok
    /\ buf' = L1BlockInfoBedrock_encode_calldata(res.val)
    /\ pc' = "l1_bedrock_reencoded"
    /\ UNCHANGED <<val, res>>

L1ReencodeEcotone ==
    /\ pc = "l1_raw_ecotone"
    /\ res.ok
    /\ buf' = L1BlockInfoEcotone_encode_calldata(res.val)
    /\ pc' = "l1_ecotone_reencoded"
    /\ UNCHANGED <<val, res>>

L1Next ==
    \/ L1Encode
    \/ L1Decode
    \/ L1DecodeRaw
    \/ L1DecodeRawBedrock
    \/ L1DecodeRawEcotone
    \/ L1ReencodeBedrock
    \/ L1ReencodeEcotone

SpecL1Info == L1Init /\ [][L1Next]_vars

\* C3: the calldata of every Bedrock value is 260 bytes and that of every
\* Ecotone value 164 bytes, it starts with the selector of its variant, and
\* L1BlockInfoTx::decode_calldata returns from it the same variant and value.
C3_CalldataRoundTrip ==
    /\ pc = "l1_encoded" =>
           /\ val.variant = "Bedrock" =>
                  Len(buf) = 260 /\ Take(buf, 4) = L1_INFO_TX_SELECTOR_BEDROCK
           /\ val.variant = "Ecotone" =>
                  Len(buf) = 164 /\ Take(buf, 4) = L1_INFO_TX_SELECTOR_ECOTONE
    /\ pc = "l1_decoded" => (res.ok /\ res.val = val)

C3_Witness ==
    /\ pc = "l1_decoded"
    /\ res.ok
    /\ res.val.variant = "Bedrock"
    /\ res.val.info.sequence_number = LeftPad(8, <<4>>)
    /\ res.val.info.time = LeftPad(8, <<101, 2, 3, 4>>)
    /\ res.val.info.l1_fee_scalar = LeftPad(32, <<15, 66, 64>>)

\* C4: every string of 260 bytes is decoded by the Bedrock decoder and every
\* string of 164 bytes by the Ecotone decoder, and encoding the decoded value
\* gives the string back.
C4_ReencodeIdentity ==
    /\ (pc = "l1_raw_bedrock" /\ Len(val.raw) = 260) => res.ok
    /\ (pc = "l1_raw_ecotone" /\ Len(val.raw) = 164) => res.ok
    /\ pc \in {"l1_bedrock_reencoded", "l1_ecotone_reencoded"} => buf = val.raw

(***************************************************************************)
(* Deposit source hashes (crates/protocol/src/deposits.rs).  keccak256 is  *)
(* given by its values on the preimages the model hashes: the inner        *)
(* preimages of the drawn sources and the outer preimages of every domain  *)
(* identifier with every inner hash.                                       *)
(***************************************************************************)
KeccakTable ==
    { <<<<0, 0, 0, 0, 0, 0, 0, 0, 0, 0, 0, 0, 0, 0, 0, 0, 0, 0, 0, 0, 0, 0,
          0, 0, 0, 0, 0, 0, 0, 0, 0, 0, 0, 0, 0, 0, 0, 0, 0, 0, 0, 0, 0, 0,
          0, 0, 0, 0, 0, 0, 0, 0, 0, 0, 0, 0, 0, 0, 0, 0, 0, 0, 0, 0>>,
        <<173, 50, 40, 182, 118, 247, 211, 205, 66, 132, 165, 68, 63, 23,
          241, 150, 43, 54, 228, 145, 179, 10, 64, 178, 64, 88, 73, 229,
          151, 186, 95, 181>>>>,
      <<<<0, 0, 0, 0, 0, 0, 0, 0, 0, 0, 0, 0, 0, 0, 0, 0, 0, 0, 0, 0, 0, 0,
          0, 0, 0, 0, 0, 0, 0, 0, 0, 0, 0, 0, 0, 0, 0, 0, 0, 0, 0, 0, 0, 0,
          0, 0, 0, 0, 0, 0, 0, 0, 0, 0, 0, 0, 0, 0, 0, 0, 0, 0, 0, 1>>,
        <<166, 238, 247, 227, 90, 190, 112, 38, 114, 150, 65, 20, 127, 121,
          21, 87, 60, 126, 151, 180, 126, 250, 84, 111, 95, 110, 50, 48,
          38, 59, 203, 73>>>>,
      <<<<0, 0, 0, 0, 0, 0, 0, 0, 0, 0, 0, 0, 0, 0, 0, 0, 0, 0, 0, 0, 0, 0,
          0, 0, 0, 0, 0, 0, 0, 0, 0, 0, 0, 0, 0, 0, 0, 0, 0, 0, 0, 0, 0, 0,
          0, 0, 0, 0, 0, 0, 0, 0, 0, 0, 0, 0, 0, 0, 0, 1, 0, 0, 0, 0>>,
        <<46, 14, 184, 84, 33, 192, 99, 176, 15, 222, 240, 65, 192, 29, 0,
          168, 28, 166, 228, 15, 149, 187, 55, 238, 140, 180, 7, 133, 148,
          170, 194, 98>>>>,
      <<<<0, 0, 0, 0, 0, 0, 0, 0, 0, 0, 0, 0, 0, 0, 0, 0, 0, 0, 0, 0, 0, 0,
          0, 0, 0, 0, 0, 0, 0, 0, 0, 42, 0, 0, 0, 0, 0, 0, 0, 0, 0, 0, 0,
          0, 0, 0, 0, 0, 0, 0, 0, 0, 0, 0, 0, 0, 0, 0, 0, 0, 0, 0, 0, 0>>,
        <<100, 217, 98, 228, 238, 194, 160, 210, 228, 5, 63, 198, 157, 59,
          72, 15, 97, 197, 146, 60, 9, 228, 186, 213, 44, 222, 236, 52, 63,
          249, 80, 115>>>>,
      <<<<0, 0, 0, 0, 0, 0, 0, 0, 0, 0, 0, 0, 0, 0, 0, 0, 0, 0, 0, 0, 0, 0,
          0, 0, 0, 0, 0, 0, 0, 0, 0, 42, 0, 0, 0, 0, 0, 0, 0, 0, 0, 0, 0,
          0, 0, 0, 0, 0, 0, 0, 0, 0, 0, 0, 0, 0, 0, 0, 0, 0, 0, 0, 0, 1>>,
        <<217, 174, 115, 136, 210, 8, 60, 46, 32, 140, 13, 253, 249, 177,
          11, 199, 43, 191, 176, 13, 99, 216, 139, 60, 127, 215, 195, 21,
          191, 193, 207, 64>>>>,
      <<<<0, 0, 0, 0, 0, 0, 0, 0, 0, 0, 0, 0, 0, 0, 0, 0, 0, 0, 0, 0, 0, 0,
          0, 0, 0, 0, 0, 0, 0, 0, 0, 42, 0, 0, 0, 0, 0, 0, 0, 0, 0, 0, 0,
          0, 0, 0, 0, 0, 0, 0, 0, 0, 0, 0, 0, 0, 0, 0, 0, 1, 0, 0, 0, 0>>,
        <<102, 53, 133, 102, 246, 78, 222, 175, 220, 18, 191, 175, 118, 44,
          27, 255, 200, 14, 162, 45, 32, 208, 28, 11, 147, 174, 113, 93,
          49, 99, 27, 235>>>>,
      <<<<34, 51, 68, 85, 102, 119, 136, 153, 170, 187, 204, 221, 238, 255,
          17, 34, 51, 68, 85, 102, 119, 136, 153, 170, 187, 204, 221, 238,
          255, 17, 34, 51, 0, 0, 0, 0, 0, 0, 0, 0, 0, 0, 0, 0, 0, 0, 0, 0,
          0, 0, 0, 0, 0, 0, 0, 0, 0, 0, 0, 0, 0, 0, 0, 0>>,
        <<97, 117, 59, 237, 36, 151, 66, 98, 114, 183, 9, 95, 177, 169, 40,
          31, 241, 200, 180, 43, 201, 221, 1, 220, 232, 62, 233, 228, 106,
          163, 244, 204>>>>,
      <<<<34, 51, 68, 85, 102, 119, 136, 153, 170, 187, 204, 221, 238, 255,
          17, 34, 51, 68, 85, 102, 119, 136, 153, 170, 187, 204, 221, 238,
          255, 17, 34, 51, 0, 0, 0, 0, 0, 0, 0, 0, 0, 0, 0, 0, 0, 0, 0, 0,
          0, 0, 0, 0, 0, 0, 0, 0, 0, 0, 0, 0, 0, 0, 0, 1>>,
        <<142, 183, 160, 148, 2, 233, 5, 230, 134, 167, 9, 255, 141, 125,
          188, 152, 169, 34, 148, 15, 46, 200, 167, 46, 89, 186, 72, 240,
          131, 83, 182, 63>>>>,
      <<<<34, 51, 68, 85, 102, 119, 136, 153, 170, 187, 204, 221, 238, 255,
          17, 34, 51, 68, 85, 102, 119, 136, 153, 170, 187, 204, 221, 238,
          255, 17, 34, 51, 0, 0, 0, 0, 0, 0, 0, 0, 0, 0, 0, 0, 0, 0, 0, 0,
          0, 0, 0, 0, 0, 0, 0, 0, 0, 0, 0, 1, 0, 0, 0, 0>>,
        <<58, 135, 103, 199, 105, 193, 20, 159, 160, 146, 198, 109, 53, 32,
          162, 36, 45, 134, 217, 143, 43, 189, 158, 222, 168, 241, 134, 89,
          136, 241, 99, 255>>>>,
      <<<<>>,
        <<197, 210, 70, 1, 134, 247, 35, 60, 146, 126, 125, 178, 220, 199,
          3, 192, 229, 0, 182, 83, 202, 130, 39, 59, 123, 250, 216, 4, 93,
          133, 164, 112>>>>,
      <<<<69, 99, 111, 116, 111, 110, 101, 58, 32, 76, 49, 32, 66, 108,
          111, 99, 107, 32, 80, 114, 111, 120, 121, 32, 85, 112, 100, 97,
          116, 101>>,
        <<142, 181, 72, 88, 105, 202, 165, 134, 37, 201, 197, 245, 65, 82,
          216, 242, 81, 51, 73, 93, 82, 243, 205, 153, 134, 16, 114, 41,
          144, 16, 208, 5>>>>,
      <<<<0, 0, 0, 0, 0, 0, 0, 0, 0, 0, 0, 0, 0, 0, 0, 0, 0, 0, 0, 0, 0, 0,
          0, 0, 0, 0, 0, 0, 0, 0, 0, 0, 173, 50, 40, 182, 118, 247, 211,
          205, 66, 132, 165, 68, 63, 23, 241, 150, 43, 54, 228, 145, 179,
          10, 64, 178, 64, 88, 73, 229, 151, 186, 95, 181>>,
        <<237, 66, 142, 28, 69, 225, 217, 86, 27, 98, 131, 78, 26, 45, 48,
          21, 160, 202, 174, 59, 253, 193, 107, 77, 160, 89, 172, 136, 91,
          1, 161, 69>>>>,
      <<<<0, 0, 0, 0, 0, 0, 0, 0, 0, 0, 0, 0, 0, 0, 0, 0, 0, 0, 0, 0, 0, 0,
          0, 0, 0, 0, 0, 0, 0, 0, 0, 0, 166, 238, 247, 227, 90, 190, 112,
          38, 114, 150, 65, 20, 127, 121, 21, 87, 60, 126, 151, 180, 126,
          250, 84, 111, 95, 110, 50, 48, 38, 59, 203, 73>>,
        <<229, 208, 101, 130, 212, 103, 5, 77, 218, 84, 4, 185, 225, 236,
          147, 247, 43, 96, 138, 73, 112, 186, 151, 7, 115, 119, 108, 105,
          202, 86, 100, 247>>>>,
      <<<<0, 0, 0, 0, 0, 0, 0, 0, 0, 0, 0, 0, 0, 0, 0, 0, 0, 0, 0, 0, 0, 0,
          0, 0, 0, 0, 0, 0, 0, 0, 0, 0, 46, 14, 184, 84, 33, 192, 99, 176,
          15, 222, 240, 65, 192, 29, 0, 168, 28, 166, 228, 15, 149, 187,
          55, 238, 140, 180, 7, 133, 148, 170, 194, 98>>,
        <<252, 34, 113, 38, 151, 70, 160, 246, 148, 27, 33, 206, 221, 225,
          81, 167, 79, 20, 175, 82, 71, 157, 163, 46, 12, 55, 255, 137, 91,
          9, 60, 224>>>>,
      <<<<0, 0, 0, 0, 0, 0, 0, 0, 0, 0, 0, 0, 0, 0, 0, 0, 0, 0, 0, 0, 0, 0,
          0, 0, 0, 0, 0, 0, 0, 0, 0, 0, 100, 217, 98, 228, 238, 194, 160,
          210, 228, 5, 63, 198, 157, 59, 72, 15, 97, 197, 146, 60, 9, 228,
          186, 213, 44, 222, 236, 52, 63, 249, 80, 115>>,
        <<95, 189, 59, 136, 195, 106, 187, 152, 29, 110, 224, 30, 168, 83,
          103, 222, 249, 17, 186, 203, 190, 237, 8, 206, 175, 93, 94, 86,
          149, 21, 1, 44>>>>,
      <<<<0, 0, 0, 0, 0, 0, 0, 0, 0, 0, 0, 0, 0, 0, 0, 0, 0, 0, 0, 0, 0, 0,
          0, 0, 0, 0, 0, 0, 0, 0, 0, 0, 217, 174, 115, 136, 210, 8, 60, 46,
          32, 140, 13, 253, 249, 177, 11, 199, 43, 191, 176, 13, 99, 216,
          139, 60, 127, 215, 195, 21, 191, 193, 207, 64>>,
        <<167, 154, 126, 100, 104, 230, 1, 203, 121, 69, 17, 120, 85, 17,
          187, 30, 187, 120, 136, 105, 103, 221, 111, 189, 174, 44, 220,
          224, 149, 112, 159, 14>>>>,
      <<<<0, 0, 0, 0, 0, 0, 0, 0, 0, 0, 0, 0, 0, 0, 0, 0, 0, 0, 0, 0, 0, 0,
          0, 0, 0, 0, 0, 0, 0, 0, 0, 0, 102, 53, 133, 102, 246, 78, 222,
          175, 220, 18, 191, 175, 118, 44, 27, 255, 200, 14, 162, 45, 32,
          208, 28, 11, 147, 174, 113, 93, 49, 99, 27, 235>>,
        <<78, 2, 127, 214, 196, 227, 54, 241, 41, 206, 54, 62, 222, 94, 85,
          22, 189, 209, 176, 174, 202, 47, 175, 173, 126, 72, 3, 17, 182,
          92, 19, 10>>>>,
      <<<<0, 0, 0, 0, 0, 0, 0, 0, 0, 0, 0, 0, 0, 0, 0, 0, 0, 0, 0, 0, 0, 0,
          0, 0, 0, 0, 0, 0, 0, 0, 0, 0, 97, 117, 59, 237, 36, 151, 66, 98,
          114, 183, 9, 95, 177, 169, 40, 31, 241, 200, 180, 43, 201, 221,
          1, 220, 232, 62, 233, 228, 106, 163, 244, 204>>,
        <<127, 92, 64, 87, 67, 69, 2, 194, 165, 153, 197, 109, 17, 70, 180,
          170, 75, 212, 41, 180, 78, 77, 160, 103, 177, 57, 108, 219, 14,
          59, 41, 80>>>>,
      <<<<0, 0, 0, 0, 0, 0, 0, 0, 0, 0, 0, 0, 0, 0, 0, 0, 0, 0, 0, 0, 0, 0,
          0, 0, 0, 0, 0, 0, 0, 0, 0, 0, 142, 183, 160, 148, 2, 233, 5, 230,
          134, 167, 9, 255, 141, 125, 188, 152, 169, 34, 148, 15, 46, 200,
          167, 46, 89, 186, 72, 240, 131, 83, 182, 63>>,
        <<76, 186, 0, 129, 17, 52, 95, 140, 252, 155, 248, 68, 173, 48,
          146, 195, 0, 202, 25, 125, 50, 230, 193, 80, 33, 42, 219, 45,
          174, 106, 105, 6>>>>,
      <<<<0, 0, 0, 0, 0, 0, 0, 0, 0, 0, 0, 0, 0, 0, 0, 0, 0, 0, 0, 0, 0, 0,
          0, 0, 0, 0, 0, 0, 0, 0, 0, 0, 58, 135, 103, 199, 105, 193, 20,
          159, 160, 146, 198, 109, 53, 32, 162, 36, 45, 134, 217, 143, 43,
          189, 158, 222, 168, 241, 134, 89, 136, 241, 99, 255>>,
        <<239, 211, 2, 184, 81, 52, 221, 135, 36, 123, 228, 21, 164, 228,
          20, 83, 66, 206, 144, 191, 221, 61, 150, 8, 79, 226, 76, 114, 35,
          68, 78, 32>>>>,
      <<<<0, 0, 0, 0, 0, 0, 0, 0, 0, 0, 0, 0, 0, 0, 0, 0, 0, 0, 0, 0, 0, 0,
          0, 0, 0, 0, 0, 0, 0, 0, 0, 0, 197, 210, 70, 1, 134, 247, 35, 60,
          146, 126, 125, 178, 220, 199, 3, 192, 229, 0, 182, 83, 202, 130,
          39, 59, 123, 250, 216, 4, 93, 133, 164, 112>>,
        <<136, 212, 132, 58, 243, 2, 194, 9, 50, 134, 137, 140, 211, 76,
          186, 122, 71, 28, 60, 220, 228, 199, 133, 20, 252, 151, 28, 60,
          106, 83, 137, 30>>>>,
      <<<<0, 0, 0, 0, 0, 0, 0, 0, 0, 0, 0, 0, 0, 0, 0, 0, 0, 0, 0, 0, 0, 0,
          0, 0, 0, 0, 0, 0, 0, 0, 0, 0, 142, 181, 72, 88, 105, 202, 165,
          134, 37, 201, 197, 245, 65, 82, 216, 242, 81, 51, 73, 93, 82,
          243, 205, 153, 134, 16, 114, 41, 144, 16, 208, 5>>,
        <<234, 232, 64, 101, 152, 19, 184, 164, 81, 207, 168, 184, 36, 145,
          180, 11, 33, 141, 138, 184, 14, 142, 138, 69, 236, 21, 101, 109,
          162, 193, 206, 61>>>>,
      <<<<0, 0, 0, 0, 0, 0, 0, 0, 0, 0, 0, 0, 0, 0, 0, 0, 0, 0, 0, 0, 0, 0,
          0, 0, 0, 0, 0, 0, 0, 0, 0, 1, 173, 50, 40, 182, 118, 247, 211,
          205, 66, 132, 165, 68, 63, 23, 241, 150, 43, 54, 228, 145, 179,
          10, 64, 178, 64, 88, 73, 229, 151, 186, 95, 181>>,
        <<0, 147, 22, 166, 178, 123, 119, 143, 201, 196, 205, 82, 14, 51,
          47, 206, 132, 90, 160, 8, 152, 119, 248, 124, 254, 140, 29, 119,
          250, 76, 193, 16>>>>,
      <<<<0, 0, 0, 0, 0, 0, 0, 0, 0, 0, 0, 0, 0, 0, 0, 0, 0, 0, 0, 0, 0, 0,
          0, 0, 0, 0, 0, 0, 0, 0, 0, 1, 166, 238, 247, 227, 90, 190, 112,
          38, 114, 150, 65, 20, 127, 121, 21, 87, 60, 126, 151, 180, 126,
          250, 84, 111, 95, 110, 50, 48, 38, 59, 203, 73>>,
        <<204, 254, 8, 186, 221, 127, 190, 232, 163, 108, 29, 43, 162, 179,
          9, 15, 103, 155, 241, 164, 151, 13, 48, 122, 221, 219, 157, 147,
          143, 199, 189, 114>>>>,
      <<<<0, 0, 0, 0, 0, 0, 0, 0, 0, 0, 0, 0, 0, 0, 0, 0, 0, 0, 0, 0, 0, 0,
          0, 0, 0, 0, 0, 0, 0, 0, 0, 1, 46, 14, 184, 84, 33, 192, 99, 176,
          15, 222, 240, 65, 192, 29, 0, 168, 28, 166, 228, 15, 149, 187,
          55, 238, 140, 180, 7, 133, 148, 170, 194, 98>>,
        <<77, 109, 112, 80, 210, 140, 112, 3, 1, 140, 36, 73, 75, 241, 203,
          28, 43, 235, 59, 95, 113, 215, 52, 82, 146, 94, 162, 185, 97,
          162, 46, 248>>>>,
      <<<<0, 0, 0, 0, 0, 0, 0, 0, 0, 0, 0, 0, 0, 0, 0, 0, 0, 0, 0, 0, 0, 0,
          0, 0, 0, 0, 0, 0, 0, 0, 0, 1, 100, 217, 98, 228, 238, 194, 160,
          210, 228, 5, 63, 198, 157, 59, 72, 15, 97, 197, 146, 60, 9, 228,
          186, 213, 44, 222, 236, 52, 63, 249, 80, 115>>,
        <<201, 136, 133, 49, 207, 16, 159, 100, 162, 200, 162, 91, 125,
          178, 96, 53, 145, 160, 214, 194, 27, 102, 223, 141, 52, 143, 147,
          73, 212, 239, 180, 210>>>>,
      <<<<0, 0, 0, 0, 0, 0, 0, 0, 0, 0, 0, 0, 0, 0, 0, 0, 0, 0, 0, 0, 0, 0,
          0, 0, 0, 0, 0, 0, 0, 0, 0, 1, 217, 174, 115, 136, 210, 8, 60, 46,
          32, 140, 13, 253, 249, 177, 11, 199, 43, 191, 176, 13, 99, 216,
          139, 60, 127, 215, 195, 21, 191, 193, 207, 64>>,
        <<175, 247, 75, 69, 41, 24, 223, 202, 184, 31, 154, 164, 228, 189,
          154, 65, 43, 7, 84, 35, 111, 35, 157, 199, 161, 86, 219, 25, 166,
          14, 36, 253>>>>,
      <<<<0, 0, 0, 0, 0, 0, 0, 0, 0, 0, 0, 0, 0, 0, 0, 0, 0, 0, 0, 0, 0, 0,
          0, 0, 0, 0, 0, 0, 0, 0, 0, 1, 102, 53, 133, 102, 246, 78, 222,
          175, 220, 18, 191, 175, 118, 44, 27, 255, 200, 14, 162, 45, 32,
          208, 28, 11, 147, 174, 113, 93, 49, 99, 27, 235>>,
        <<154, 17, 235, 109, 72, 2, 187, 48, 31, 222, 212, 30, 89, 232,
          230, 242, 107, 246, 134, 215, 12, 238, 128, 24, 100, 182, 226,
          61, 11, 241, 254, 81>>>>,
      <<<<0, 0, 0, 0, 0, 0, 0, 0, 0, 0, 0, 0, 0, 0, 0, 0, 0, 0, 0, 0, 0, 0,
          0, 0, 0, 0, 0, 0, 0, 0, 0, 1, 97, 117, 59, 237, 36, 151, 66, 98,
          114, 183, 9, 95, 177, 169, 40, 31, 241, 200, 180, 43, 201, 221,
          1, 220, 232, 62, 233, 228, 106, 163, 244, 204>>,
        <<128, 56, 67, 52, 67, 3, 43, 66, 245, 42, 5, 115, 54, 104, 178,
          60, 95, 163, 121, 209, 5, 172, 35, 29, 47, 148, 253, 189, 127,
          28, 247, 131>>>>,
      <<<<0, 0, 0, 0, 0, 0, 0, 0, 0, 0, 0, 0, 0, 0, 0, 0, 0, 0, 0, 0, 0, 0,
          0, 0, 0, 0, 0, 0, 0, 0, 0, 1, 142, 183, 160, 148, 2, 233, 5, 230,
          134, 167, 9, 255, 141, 125, 188, 152, 169, 34, 148, 15, 46, 200,
          167, 46, 89, 186, 72, 240, 131, 83, 182, 63>>,
        <<129, 136, 165, 133, 145, 141, 174, 159, 125, 159, 248, 43, 141,
          184, 62, 84, 120, 34, 82, 47, 180, 217, 81, 147, 193, 42, 40,
          184, 107, 227, 91, 55>>>>,
      <<<<0, 0, 0, 0, 0, 0, 0, 0, 0, 0, 0, 0, 0, 0, 0, 0, 0, 0, 0, 0, 0, 0,
          0, 0, 0, 0, 0, 0, 0, 0, 0, 1, 58, 135, 103, 199, 105, 193, 20,
          159, 160, 146, 198, 109, 53, 32, 162, 36, 45, 134, 217, 143, 43,
          189, 158, 222, 168, 241, 134, 89, 136, 241, 99, 255>>,
        <<162, 65, 184, 60, 237, 59, 42, 67, 108, 72, 196, 126, 183, 78,
          237, 171, 172, 221, 138, 217, 190, 139, 236, 8, 204, 199, 93, 48,
          255, 227, 218, 95>>>>,
      <<<<0, 0, 0, 0, 0, 0, 0, 0, 0, 0, 0, 0, 0, 0, 0, 0, 0, 0, 0, 0, 0, 0,
          0, 0, 0, 0, 0, 0, 0, 0, 0, 1, 197, 210, 70, 1, 134, 247, 35, 60,
          146, 126, 125, 178, 220, 199, 3, 192, 229, 0, 182, 83, 202, 130,
          39, 59, 123, 250, 216, 4, 93, 133, 164, 112>>,
        <<53, 237, 92, 107, 102, 69, 37, 122, 186, 207, 194, 57, 169, 254,
          211, 252, 124, 147, 107, 167, 166, 227, 255, 123, 94, 81, 250,
          245, 154, 44, 85, 205>>>>,
      <<<<0, 0, 0, 0, 0, 0, 0, 0, 0, 0, 0, 0, 0, 0, 0, 0, 0, 0, 0, 0, 0, 0,
          0, 0, 0, 0, 0, 0, 0, 0, 0, 1, 142, 181, 72, 88, 105, 202, 165,
          134, 37, 201, 197, 245, 65, 82, 216, 242, 81, 51, 73, 93, 82,
          243, 205, 153, 134, 16, 114, 41, 144, 16, 208, 5>>,
        <<60, 107, 209, 11, 16, 34, 171, 162, 3, 197, 221, 184, 250, 135,
          16, 205, 223, 210, 179, 108, 54, 199, 32, 129, 241, 9, 159, 13,
          49, 59, 191, 241>>>>,
      <<<<0, 0, 0, 0, 0, 0, 0, 0, 0, 0, 0, 0, 0, 0, 0, 0, 0, 0, 0, 0, 0, 0,
          0, 0, 0, 0, 0, 0, 0, 0, 0, 2, 173, 50, 40, 182, 118, 247, 211,
          205, 66, 132, 165, 68, 63, 23, 241, 150, 43, 54, 228, 145, 179,
          10, 64, 178, 64, 88, 73, 229, 151, 186, 95, 181>>,
        <<9, 249, 34, 160, 130, 9, 157, 139, 179, 206, 247, 111, 33, 75,
          151, 212, 234, 24, 190, 58, 177, 29, 235, 115, 30, 70, 118, 17,
          10, 136, 91, 72>>>>,
      <<<<0, 0, 0, 0, 0, 0, 0, 0, 0, 0, 0, 0, 0, 0, 0, 0, 0, 0, 0, 0, 0, 0,
          0, 0, 0, 0, 0, 0, 0, 0, 0, 2, 166, 238, 247, 227, 90, 190, 112,
          38, 114, 150, 65, 20, 127, 121, 21, 87, 60, 126, 151, 180, 126,
          250, 84, 111, 95, 110, 50, 48, 38, 59, 203, 73>>,
        <<177, 22, 228, 156, 93, 114, 93, 255, 125, 4, 239, 248, 222, 43,
          108, 186, 96, 106, 222, 189, 92, 81, 209, 64, 251, 227, 236, 92,
          39, 44, 95, 115>>>>,
      <<<<0, 0, 0, 0, 0, 0, 0, 0, 0, 0, 0, 0, 0, 0, 0, 0, 0, 0, 0, 0, 0, 0,
          0, 0, 0, 0, 0, 0, 0, 0, 0, 2, 46, 14, 184, 84, 33, 192, 99, 176,
          15, 222, 240, 65, 192, 29, 0, 168, 28, 166, 228, 15, 149, 187,
          55, 238, 140, 180, 7, 133, 148, 170, 194, 98>>,
        <<215, 12, 53, 192, 105, 82, 242, 85, 232, 169, 219, 58, 249, 114,
          251, 149, 144, 204, 221, 99, 219, 153, 169, 30, 111, 124, 101,
          35, 110, 99, 104, 142>>>>,
      <<<<0, 0, 0, 0, 0, 0, 0, 0, 0, 0, 0, 0, 0, 0, 0, 0, 0, 0, 0, 0, 0, 0,
          0, 0, 0, 0, 0, 0, 0, 0, 0, 2, 100, 217, 98, 228, 238, 194, 160,
          210, 228, 5, 63, 198, 157, 59, 72, 15, 97, 197, 146, 60, 9, 228,
          186, 213, 44, 222, 236, 52, 63, 249, 80, 115>>,
        <<17, 57, 100, 227, 226, 36, 247, 112, 119, 249, 41, 14, 164, 135,
          181, 188, 117, 2, 144, 228, 97, 18, 152, 87, 243, 95, 39, 92, 96,
          10, 245, 229>>>>,
      <<<<0, 0, 0, 0, 0, 0, 0, 0, 0, 0, 0, 0, 0, 0, 0, 0, 0, 0, 0, 0, 0, 0,
          0, 0, 0, 0, 0, 0, 0, 0, 0, 2, 217, 174, 115, 136, 210, 8, 60, 46,
          32, 140, 13, 253, 249, 177, 11, 199, 43, 191, 176, 13, 99, 216,
          139, 60, 127, 215, 195, 21, 191, 193, 207, 64>>,
        <<226, 238, 88, 114, 216, 253, 69, 74, 203, 67, 13, 139, 36, 94,
          32, 216, 18, 99, 9, 158, 113, 202, 65, 189, 94, 54, 175, 72, 120,
          10, 176, 48>>>>,
      <<<<0, 0, 0, 0, 0, 0, 0, 0, 0, 0, 0, 0, 0, 0, 0, 0, 0, 0, 0, 0, 0, 0,
          0, 0, 0, 0, 0, 0, 0, 0, 0, 2, 102, 53, 133, 102, 246, 78, 222,
          175, 220, 18, 191, 175, 118, 44, 27, 255, 200, 14, 162, 45, 32,
          208, 28, 11, 147, 174, 113, 93, 49, 99, 27, 235>>,
        <<165, 180, 124, 81, 54, 97, 125, 65, 19, 213, 46, 115, 45, 43,
          117, 44, 204, 115, 162, 74, 11, 168, 67, 22, 122, 120, 202, 51,
          51, 216, 236, 29>>>>,
      <<<<0, 0, 0, 0, 0, 0, 0, 0, 0, 0, 0, 0, 0, 0, 0, 0, 0, 0, 0, 0, 0, 0,
          0, 0, 0, 0, 0, 0, 0, 0, 0, 2, 97, 117, 59, 237, 36, 151, 66, 98,
          114, 183, 9, 95, 177, 169, 40, 31, 241, 200, 180, 43, 201, 221,
          1, 220, 232, 62, 233, 228, 106, 163, 244, 204>>,
        <<80, 124, 7, 197, 245, 230, 48, 106, 128, 69, 1, 89, 242, 47, 247,
          28, 249, 50, 64, 10, 198, 244, 104, 245, 53, 232, 7, 96, 105,
          122, 147, 189>>>>,
      <<<<0, 0, 0, 0, 0, 0, 0, 0, 0, 0, 0, 0, 0, 0, 0, 0, 0, 0, 0, 0, 0, 0,
          0, 0, 0, 0, 0, 0, 0, 0, 0, 2, 142, 183, 160, 148, 2, 233, 5, 230,
          134, 167, 9, 255, 141, 125, 188, 152, 169, 34, 148, 15, 46, 200,
          167, 46, 89, 186, 72, 240, 131, 83, 182, 63>>,
        <<59, 93, 242, 203, 93, 246, 41, 129, 208, 61, 222, 77, 175, 17, 4,
          202, 70, 88, 236, 46, 35, 192, 75, 221, 199, 216, 131, 32, 31,
          124, 20, 128>>>>,
      <<<<0, 0, 0, 0, 0, 0, 0, 0, 0, 0, 0, 0, 0, 0, 0, 0, 0, 0, 0, 0, 0, 0,
          0, 0, 0, 0, 0, 0, 0, 0, 0, 2, 58, 135, 103, 199, 105, 193, 20,
          159, 160, 146, 198, 109, 53, 32, 162, 36, 45, 134, 217, 143, 43,
          189, 158, 222, 168, 241, 134, 89, 136, 241, 99, 255>>,
        <<7, 91, 234, 16, 123, 30, 174, 114, 87, 88, 11, 238, 207, 229,
          220, 147, 134, 81, 7, 39, 186, 131, 106, 112, 82, 221, 203, 38,
          122, 60, 223, 163>>>>,
      <<<<0, 0, 0, 0, 0, 0, 0, 0, 0, 0, 0, 0, 0, 0, 0, 0, 0, 0, 0, 0, 0, 0,
          0, 0, 0, 0, 0, 0, 0, 0, 0, 2, 197, 210, 70, 1, 134, 247, 35, 60,
          146, 126, 125, 178, 220, 199, 3, 192, 229, 0, 182, 83, 202, 130,
          39, 59, 123, 250, 216, 4, 93, 133, 164, 112>>,
        <<142, 30, 22, 20, 165, 23, 46, 23, 214, 220, 97, 118, 230, 88,
          253, 69, 44, 152, 130, 209, 5, 63, 193, 118, 112, 254, 5, 231,
          222, 70, 225, 47>>>>,
      <<<<0, 0, 0, 0, 0, 0, 0, 0, 0, 0, 0, 0, 0, 0, 0, 0, 0, 0, 0, 0, 0, 0,
          0, 0, 0, 0, 0, 0, 0, 0, 0, 2, 142, 181, 72, 88, 105, 202, 165,
          134, 37, 201, 197, 245, 65, 82, 216, 242, 81, 51, 73, 93, 82,
          243, 205, 153, 134, 16, 114, 41, 144, 16, 208, 5>>,
        <<24, 172, 179, 140, 95, 241, 194, 56, 167, 70, 14, 188, 27, 66,
          31, 164, 158, 196, 135, 75, 223, 30, 10, 83, 13, 35, 65, 4, 229,
          230, 125, 188>>>> }

keccak256(x) == (CHOOSE e \in KeccakTable : e[1] = x)[2]

DepositSourceDomainIdentifier_User == 0

DepositSourceDomainIdentifier_L1Info == 1

DepositSourceDomainIdentifier_Upgrade == 2

UserDepositSource(l1_block_hash, log_index) ==
    [domain |-> "User", l1_block_hash |-> l1_block_hash, log_index |-> log_index]

L1InfoDepositSource(l1_block_hash, seq_number) ==
    [domain |-> "L1Info", l1_block_hash |-> l1_block_hash, seq_number |-> seq_number]

\* The intent is kept as the bytes of the string.
UpgradeDepositSource(intent) == [domain |-> "Upgrade", intent |-> intent]

\* input[..32] = l1_block_hash, input[56..] = the number, the rest zero
deposit_id_input(l1_block_hash, number) == l1_block_hash \o Zeros(32 - 8) \o number

\* domain_input[24..32] = identifier as u64, domain_input[32..] = the hash
domain_input(identifier, hash) == Zeros(32 - 8) \o LeftPad(8, <<identifier>>) \o hash

UserDepositSource_domain_input(ds) ==
    domain_input(DepositSourceDomainIdentifier_User,
                 keccak256(deposit_id_input(ds.l1_block_hash, ds.log_index)))

UserDepositSource_source_hash(ds) == keccak256(UserDepositSource_domain_input(ds))

\* The L1 info source hashed under the identifier of the user domain.
L1InfoDepositSource_domain_input_as_user(ds) ==
    domain_input(DepositSourceDomainIdentifier_User,
                 keccak256(deposit_id_input(ds.l1_block_hash, ds.seq_number)))

L1InfoDepositSource_domain_input(ds) ==
    domain_input(DepositSourceDomainIdentifier_L1Info,
                 keccak256(deposit_id_input(ds.l1_block_hash, ds.seq_number)))

L1InfoDepositSource_source_hash(ds) == keccak256(L1InfoDepositSource_domain_input(ds))

UpgradeDepositSource_domain_input(ds) ==
    domain_input(DepositSourceDomainIdentifier_Upgrade, keccak256(ds.intent))

UpgradeDepositSource_source_hash(ds) == keccak256(UpgradeDepositSource_domain_input(ds))

\* DepositSourceDomain::source_hash
source_hash(d) ==
    IF d.domain = "User" THEN UserDepositSource_source_hash(d)
    ELSE IF d.domain = "L1Info" THEN L1InfoDepositSource_source_hash(d)
    ELSE UpgradeDepositSource_source_hash(d)

\* The two preimages that source_hash builds on its way.
inner_preimage(d) ==
    IF d.domain = "User" THEN deposit_id_input(d.l1_block_hash, d.log_index)
    ELSE IF d.domain = "L1Info" THEN deposit_id_input(d.l1_block_hash, d.seq_number)
    ELSE d.intent

outer_preimage(d) ==
    IF d.domain = "User" THEN UserDepositSource_domain_input(d)
    ELSE IF d.domain = "L1Info" THEN L1InfoDepositSource_domain_input(d)
    ELSE UpgradeDepositSource_domain_input(d)

(***************************************************************************)
(* Source hashing as a state machine: two sources are drawn and hashed.    *)
(* Among the intents are the 64 bytes that are the inner preimage of a     *)
(* user or L1 info source.                                                 *)
(***************************************************************************)
DepositSourceDomainValues ==
    { UserDepositSource(h, n) :
        h \in {Zeros(32), LeftPad(32, <<42>>), [i \in 1..32 |-> 17 * ((i % 15) + 1)]},
        n \in {Zeros(8), LeftPad(8, <<1>>), LeftPad(8, <<1, 0, 0, 0, 0>>)} }
    \cup
    { L1InfoDepositSource(h, n) :
        h \in {Zeros(32), LeftPad(32, <<42>>), [i \in 1..32 |-> 17 * ((i % 15) + 1)]},
        n \in {Zeros(8), LeftPad(8, <<1>>), LeftPad(8, <<1, 0, 0, 0, 0>>)} }
    \cup
    { UpgradeDepositSource(s) :
        s \in { <<>>,
                <<69, 99, 111, 116, 111, 110, 101, 58, 32, 76, 49, 32, 66, 108, 111, 99,
                  107, 32, 80, 114, 111, 120, 121, 32, 85, 112, 100, 97, 116, 101>>,
                Zeros(64),
                LeftPad(32, <<42>>) \o Zeros(24) \o LeftPad(8, <<1>>) } }

SrcInit ==
    /\ pc = "src_start"
    /\ val \in {[a |-> a, b |-> b] : a \in DepositSourceDomainValues,
                                     b \in DepositSourceDomainValues}
    /\ buf = <<>>
    /\ res = NoResult

SourceHash ==
    /\ pc = "src_start"
    /\ res' = [a |-> source_hash(val.a), b |-> source_hash(val.b)]
    /\ buf' = [inner_a |-> inner_preimage(val.a), inner_b |-> inner_preimage(val.b),
               outer_a |-> outer_preimage(val.a), outer_b |-> outer_preimage(val.b)]
    /\ pc' = "src_hashed"
    /\ UNCHANGED val

SpecSource == SrcInit /\ [][SourceHash]_vars

\* C7: sources of different domains have different source hashes; the outer
\* preimage is 24 zero bytes, the domain id 0, 1 or 2 as 8 big-endian bytes and
\* the hash of the inner preimage; different (h, n) of one domain have different
\* inner preimages h || 24 zero bytes || n; equal sources have equal hashes.
C7_DomainSeparation ==
    LET id(d) == IF d.domain = "User" THEN 0 ELSE IF d.domain = "L1Info" THEN 1 ELSE 2
    IN  pc = "src_hashed" =>
        /\ val.a.domain # val.b.domain => res.a # res.b
        /\ Len(buf.outer_a) = 64
        /\ Slice(buf.outer_a, 0, 24) = Zeros(24)
        /\ Slice(buf.outer_a, 24, 32) = <<0, 0, 0, 0, 0, 0, 0, id(val.a)>>
        /\ Slice(buf.outer_a, 32, 64) = keccak256(buf.inner_a)
        /\ res.a = keccak256(buf.outer_a)
        /\ val.a.domain = "User" =>
               buf.inner_a = val.a.l1_block_hash \o Zeros(24) \o val.a.log_index
        /\ val.a.domain = "L1Info" =>
               buf.inner_a = val.a.l1_block_hash \o Zeros(24) \o val.a.seq_number
        /\ (val.a.domain = val.b.domain /\ val.a.domain # "Upgrade" /\ val.a # val.b) =>
               buf.inner_a # buf.inner_b
        /\ val.a = val.b => res.a = res.b

C7_Witness ==
    /\ pc = "src_hashed"
    /\ val.a = UserDepositSource(Zeros(32), Zeros(8))
    /\ val.b = UpgradeDepositSource(Zeros(64))
    /\ buf.inner_a = buf.inner_b
    /\ Slice(buf.outer_a, 32, 64) = Slice(buf.outer_b, 32, 64)
    /\ res.a # res.b

(***************************************************************************)
(* The deposit log decoder (crates/protocol/src/deposits.rs).  An error is *)
(* a tuple of the variant's name and its arguments.                        *)
(***************************************************************************)
DEPOSIT_EVENT_ABI_HASH ==
    <<179, 129, 53, 104, 217, 153, 31, 201, 81, 150, 31, 203, 76, 120, 72, 147,
      87, 66, 64, 162, 137, 37, 96, 77, 9, 252, 87, 124, 85, 187, 124, 50>>

DEPOSIT_EVENT_VERSION_0 == Zeros(32)

DEPOSIT_EVENT_VERSION_1 == LeftPad(32, <<1>>)

\* A u64 read from 8 big-endian bytes, for values that fit the lengths of the
\* model (below 2^24); the larger ones are told apart by their high bytes.
AsLength(b) == b[6] * 65536 + b[7] * 256 + b[8]

\* opaque_content_len as usize > n, for a length n of the model
ExceedsLength(b, n) == ~IsZero(Take(b, 5)) \/ AsLength(b) > n

\* The field read from the high half of its slot.
decode_u128_field_high_half(data, offset, error_fn) ==
    IF Len(Slice(data, offset, offset + 16)) # 16
    THEN Err(<<error_fn, Slice(data, offset, offset + 16)>>)
    ELSE Ok(IF IsZero(Slice(data, offset, offset + 16)) THEN None
            ELSE Some(Slice(data, offset, offset + 16)), <<>>)

decode_u128_field(data, offset, error_fn) ==
    IF Len(Slice(data, offset + 16, offset + 32)) # 16
    THEN Err(<<error_fn, Slice(data, offset + 16, offset + 32)>>)
    ELSE Ok(IF IsZero(Slice(data, offset + 16, offset + 32)) THEN None
            ELSE Some(Slice(data, offset + 16, offset + 32)), <<>>)

decode_u8_field(data, offset, error_fn) ==
    IF Len(Slice(data, offset, offset + 8)) # 8
    THEN Err(<<error_fn, Slice(data, offset, offset + 8)>>)
    ELSE Ok(Slice(data, offset, offset + 8), <<>>)

unmarshal_deposit_version0(tx, to, data) ==
    LET fields(mint, eth_value, gas_limit) ==
            IF ~mint.ok THEN mint
            ELSE IF ~eth_value.ok THEN eth_value
            ELSE IF ~gas_limit.ok THEN gas_limit
            ELSE Ok([tx EXCEPT !.mint = mint.val,
                               !.value = Slice(data, 32, 64),
                               !.eth_value = eth_value.val,
                               !.gas_limit = gas_limit.val,
                               !.to = IF data[104 + 1] = 0 THEN Call(to) ELSE Create,
                               !.input = Slice(data, 105, Len(data))], <<>>)
    IN  IF Len(data) < 32 + 32 + 32 + 8 + 1
        THEN Err(<<"UnexpectedOpaqueDataLen", Len(data)>>)
        ELSE fields(decode_u128_field(data, 0, "MintDecode"),
                    decode_u128_field(data, 64, "EthValueDecode"),
                    decode_u8_field(data, 96, "GasDecode"))

\* Version 1 data unmarshalled by the layout of version 0.
unmarshal_deposit_version1_as_version0(tx, to, data) ==
    unmarshal_deposit_version0(tx, to, data)

unmarshal_deposit_version1(tx, to, data) ==
    LET fields(mint, eth_value, eth_tx_value, gas_limit) ==
            IF ~mint.ok THEN mint
            ELSE IF ~eth_value.ok THEN eth_value
            ELSE IF ~eth_tx_value.ok THEN eth_tx_value
            ELSE IF ~gas_limit.ok THEN gas_limit
            ELSE Ok([tx EXCEPT !.mint = mint.val,
                               !.value = Slice(data, 32, 64),
                               !.eth_value = eth_value.val,
                               !.eth_tx_value = eth_tx_value.val,
                               !.gas_limit = gas_limit.val,
                               !.to = IF data[136 + 1] = 0 THEN Call(to) ELSE Create,
                               !.input = Slice(data, 137, Len(data))], <<>>)
    IN  IF Len(data) < 32 + 32 + 32 + 32 + 8 + 1
        THEN Err(<<"UnexpectedOpaqueDataLen", Len(data)>>)
        ELSE fields(decode_u128_field(data, 0, "MintDecode"),
                    decode_u128_field(data, 64, "EthValueDecode"),
                    decode_u128_field(data, 96, "EthTxValueDecode"),
                    decode_u8_field(data, 128, "GasDecode"))

\* The framing checks with the padded length compared by < instead of <=.
decode_deposit_opaque_data_strict(log) ==
    IF Len(log.topics) # 4 THEN Err(<<"UnexpectedTopicsLen", Len(log.topics)>>)
    ELSE IF log.topics[1] # DEPOSIT_EVENT_ABI_HASH
         THEN Err(<<"InvalidSelector", DEPOSIT_EVENT_ABI_HASH, log.topics[1]>>)
    ELSE IF Len(log.data) < 64 THEN Err(<<"IncompleteOpaqueData", Len(log.data)>>)
    ELSE IF Len(log.data) % 32 # 0 THEN Err(<<"UnalignedData", Len(log.data)>>)
    ELSE IF Slice(log.data, 24, 32) # LeftPad(8, <<32>>)
         THEN Err(<<"InvalidOpaqueDataOffset", Slice(log.data, 24, 32)>>)
    ELSE IF ExceedsLength(Slice(log.data, 56, 64), Len(log.data) - 64)
         THEN Err(<<"OpaqueDataOverflow", Slice(log.data, 56, 64), Len(log.data) - 64>>)
    ELSE IF AsLength(Slice(log.data, 56, 64)) + 32 < Len(log.data) - 64
         THEN Err(<<"PaddedOpaqueDataOverflow", Len(log.data) - 64,
                    AsLength(Slice(log.data, 56, 64))>>)
    ELSE Ok(Slice(log.data, 64, 64 + AsLength(Slice(log.data, 56, 64))), <<>>)

\* decode_deposit up to the opaque data: the checks of the topics and of the
\* ABI framing, and the slice &log.data.data[64..64 + opaque_content_len].
decode_deposit_opaque_data(log) ==
    IF Len(log.topics) # 4 THEN Err(<<"UnexpectedTopicsLen", Len(log.topics)>>)
    ELSE IF log.topics[1] # DEPOSIT_EVENT_ABI_HASH
         THEN Err(<<"InvalidSelector", DEPOSIT_EVENT_ABI_HASH, log.topics[1]>>)
    ELSE IF Len(log.data) < 64 THEN Err(<<"IncompleteOpaqueData", Len(log.data)>>)
    ELSE IF Len(log.data) % 32 # 0 THEN Err(<<"UnalignedData", Len(log.data)>>)
    ELSE IF Slice(log.data, 24, 32) # LeftPad(8, <<32>>)
         THEN Err(<<"InvalidOpaqueDataOffset", Slice(log.data, 24, 32)>>)
    ELSE IF ExceedsLength(Slice(log.data, 56, 64), Len(log.data) - 64)
         THEN Err(<<"OpaqueDataOverflow", Slice(log.data, 56, 64), Len(log.data) - 64>>)
    ELSE IF AsLength(Slice(log.data, 56, 64)) + 32 <= Len(log.data) - 64
         THEN Err(<<"PaddedOpaqueDataOverflow", Len(log.data) - 64,
                    AsLength(Slice(log.data, 56, 64))>>)
    ELSE Ok(Slice(log.data, 64, 64 + AsLength(Slice(log.data, 56, 64))), <<>>)

\* The version matched before the offset and length words are read.
decode_deposit_tx_version_first(block_hash, index, log) ==
    LET deposit_tx ==
            TxDeposit(UserDepositSource_source_hash(UserDepositSource(block_hash, index)),
                      Slice(log.topics[2], 12, 32), Create, None, Zeros(32), Zeros(8),
                      FALSE, None, <<>>, None)
        unmarshal(version, to, opaque_data) ==
            IF ~opaque_data.ok
                /\ opaque_data.err[1] \in {"InvalidSelector", "IncompleteOpaqueData",
                                           "UnalignedData"}
            THEN opaque_data
            ELSE IF version \notin {DEPOSIT_EVENT_VERSION_0, DEPOSIT_EVENT_VERSION_1}
                 THEN Err(<<"InvalidVersion", version>>)
            ELSE IF ~opaque_data.ok THEN opaque_data
            ELSE IF version = DEPOSIT_EVENT_VERSION_0
                 THEN unmarshal_deposit_version0(deposit_tx, to, opaque_data.val)
            ELSE unmarshal_deposit_version1(deposit_tx, to, opaque_data.val)
    IN  IF Len(log.topics) # 4 THEN decode_deposit_opaque_data(log)
        ELSE unmarshal(log.topics[4], Slice(log.topics[3], 12, 32),
                       decode_deposit_opaque_data(log))

\* decode_deposit up to the transaction it builds: TxDeposit::default() with
\* from, is_system_transaction and source_hash set, and then match version.
decode_deposit_tx(block_hash, index, log) ==
    LET deposit_tx ==
            TxDeposit(UserDepositSource_source_hash(UserDepositSource(block_hash, index)),
                      Slice(log.topics[2], 12, 32), Create, None, Zeros(32), Zeros(8),
                      FALSE, None, <<>>, None)
        unmarshal(version, to, opaque_data) ==
            IF ~opaque_data.ok THEN opaque_data
            ELSE IF version = DEPOSIT_EVENT_VERSION_0
                 THEN unmarshal_deposit_version0(deposit_tx, to, opaque_data.val)
            ELSE IF version = DEPOSIT_EVENT_VERSION_1
                 THEN unmarshal_deposit_version1(deposit_tx, to, opaque_data.val)
            ELSE Err(<<"InvalidVersion", version>>)
    IN  IF Len(log.topics) # 4 THEN decode_deposit_opaque_data(log)
        ELSE unmarshal(log.topics[4], Slice(log.topics[3], 12, 32),
                       decode_deposit_opaque_data(log))

\* A variant of decode_deposit that returns the network encoding, the
\* type byte and the list wrapped in a string header.
decode_deposit_network_encoded(block_hash, index, log) ==
    LET encoded(tx) == IF ~tx.ok THEN tx ELSE Ok(network_encode(tx.val), <<>>)
    IN  encoded(decode_deposit_tx(block_hash, index, log))

\* The transaction is then encoded by TxDeposit::eip2718_encode.
decode_deposit(block_hash, index, log) ==
    LET encoded(tx) == IF ~tx.ok THEN tx ELSE Ok(eip2718_encode(tx.val), <<>>)
    IN  encoded(decode_deposit_tx(block_hash, index, log))

(***************************************************************************)
(* The deposit log decoder as a state machine: a block hash, a log index   *)
(* and a log are drawn and decode_deposit is called.  buf keeps the opaque *)
(* data and the transaction the call went through, res is what it returns. *)
(***************************************************************************)
\* The opaque data of well-formed logs: abi.encodePacked of the fields of
\* version 0 and of version 1, with the 32-byte slots of the optional values
\* zero, set in the low half, set in the high half, or set in both.
OpaqueValues ==
    { m \o v \o ev \o LeftPad(8, <<195, 80>>) \o <<c>> \o d :
        m \in {Zeros(32), LeftPad(32, <<100>>), LeftPad(16, <<1>>) \o Zeros(16),
               [i \in 1..32 |-> 255]},
        v \in {Zeros(32), LeftPad(32, <<3, 232>>)},
        ev \in {Zeros(32), LeftPad(32, <<100>>), LeftPad(16, <<1>>) \o Zeros(16)},
        c \in {0, 1, 2}, d \in {<<>>, <<1, 2, 3>>} }
    \cup
    { m \o LeftPad(32, <<3, 232>>) \o ev \o etv \o LeftPad(8, <<195, 80>>) \o <<c>> \o d :
        m \in {Zeros(32), LeftPad(32, <<100>>), LeftPad(16, <<1>>) \o Zeros(16),
               [i \in 1..32 |-> 255]},
        ev \in {Zeros(32), LeftPad(32, <<100>>), LeftPad(16, <<1>>) \o Zeros(16)},
        etv \in {Zeros(32), LeftPad(32, <<100>>), LeftPad(16, <<1>>) \o Zeros(16)},
        c \in {0, 1}, d \in {<<>>, <<1, 2, 3>>} }

\* abi.encode(bytes): the offset word, the length word, the content and its
\* padding to a multiple of 32 bytes.
AbiEncodeBytes(opaque) ==
    LeftPad(32, <<32>>) \o LeftPad(32, NatBytes(Len(opaque))) \o opaque
    \o Zeros((32 - (Len(opaque) % 32)) % 32)

\* Log data with a free choice of the offset word, the length word and the
\* number of bytes after them.
FramedData(offset_word, length_word, remaining) ==
    offset_word \o length_word
    \o Take(LeftPad(32, <<100>>) \o LeftPad(32, <<3, 232>>) \o Zeros(32)
            \o LeftPad(32, <<100>>) \o LeftPad(8, <<195, 80>>) \o Zeros(257), remaining)

DepositTopics(version) ==
    <<DEPOSIT_EVENT_ABI_HASH, LeftPad(32, [i \in 1..20 |-> 17]),
      SetByte(LeftPad(32, [i \in 1..20 |-> 34]), 1, 255), version>>

\* Well-formed logs of both versions; logs with every combination of version,
\* offset word, length word and data length; logs with other topics; logs
\* with short or unaligned data; and logs of zero topics and zero content.
DepositLogValues ==
    { Log(Zeros(20), DepositTopics(v), AbiEncodeBytes(o)) :
        v \in {DEPOSIT_EVENT_VERSION_0, DEPOSIT_EVENT_VERSION_1}, o \in OpaqueValues }
    \cup
    { Log(Zeros(20), DepositTopics(v), FramedData(ow, lw, n)) :
        v \in {DEPOSIT_EVENT_VERSION_0, DEPOSIT_EVENT_VERSION_1, LeftPad(32, <<2>>),
               SetByte(DEPOSIT_EVENT_VERSION_1, 1, 1)},
        ow \in {LeftPad(32, <<32>>), LeftPad(32, <<31>>), LeftPad(32, <<1, 32>>),
                SetByte(LeftPad(32, <<32>>), 1, 1)},
        lw \in {LeftPad(32, NatBytes(n)) :
                  n \in {0, 1, 31, 32, 33, 64, 72, 73, 96, 104, 105, 106, 128, 136,
                         137, 138, 160, 161, 192, 193}}
               \cup {LeftPad(32, <<1, 0, 0, 0, 0>>), LeftPad(32, [i \in 1..8 |-> 255]),
                     SetByte(LeftPad(32, <<137>>), 1, 1)},
        n \in {0, 32, 64, 96, 128, 160, 192, 224} }
    \cup
    { Log(Zeros(20), t, FramedData(LeftPad(32, <<32>>), LeftPad(32, <<137>>), 160)) :
        t \in { Take(DepositTopics(DEPOSIT_EVENT_VERSION_1), 3),
                Append(DepositTopics(DEPOSIT_EVENT_VERSION_1), Zeros(32)),
                SetByte(DepositTopics(DEPOSIT_EVENT_VERSION_1), 1, Zeros(32)) } }
    \cup
    { Log(Zeros(20), DepositTopics(DEPOSIT_EVENT_VERSION_0), d) :
        d \in {<<>>, Zeros(63), Zeros(65), Take(AbiEncodeBytes(Zeros(105)), 100)} }
    \cup
    { Log(Zeros(20), <<DEPOSIT_EVENT_ABI_HASH, Zeros(32), Zeros(32), v>>,
          LeftPad(32, <<32>>) \o LeftPad(32, <<n>>) \o Zeros(128)) :
        v \in {DEPOSIT_EVENT_VERSION_0, DEPOSIT_EVENT_VERSION_1}, n \in {105, 128} }

DepInit ==
    /\ pc = "dep_start"
    /\ val \in {[block_hash |-> b[1], index |-> b[2], log |-> l] :
                  b \in {<<Zeros(32), Zeros(8)>>, <<LeftPad(32, <<42>>), LeftPad(8, <<1>>)>>},
                  l \in DepositLogValues}
    /\ buf = <<>>
    /\ res = NoResult

DecodeDeposit ==
    /\ pc = "dep_start"
    /\ res' = decode_deposit(val.block_hash, val.index, val.log)
    /\ buf' = [opaque_data |-> decode_deposit_opaque_data(val.log),
               deposit_tx |-> decode_deposit_tx(val.block_hash, val.index, val.log)]
    /\ pc' = "dep_decoded"
    /\ UNCHANGED val

SpecDeposit == DepInit /\ [][DecodeDeposit]_vars

\* C8: for a log with 4 topics, the event signature, data of D >= 64 bytes with
\* D % 32 = 0 and an offset word whose bytes 24..32 are 32, with L the length in
\* bytes 56..64: L > D-64 gives OpaqueDataOverflow, L+32 <= D-64 gives
\* PaddedOpaqueDataOverflow, the framing checks pass exactly when
\* L <= D-64 < L+32, which is when D-64 is L rounded up to a multiple of 32, and
\* the opaque data parsed is then data[64 .. 64+L].
C8_FramingBounds ==
    (/\ pc = "dep_decoded"
     /\ Len(val.log.topics) = 4
     /\ val.log.topics[1] = DEPOSIT_EVENT_ABI_HASH
     /\ Len(val.log.data) >= 64
     /\ Len(val.log.data) % 32 = 0
     /\ Slice(val.log.data, 24, 32) = <<0, 0, 0, 0, 0, 0, 0, 32>>) =>
        LET D   == Len(val.log.data)
            Lb  == Slice(val.log.data, 56, 64)
            big == \E i \in 1..5 : Lb[i] # 0
            L   == Lb[6] * 65536 + Lb[7] * 256 + Lb[8]
        IN  /\ (big \/ L > D - 64) =>
                   (~res.ok /\ res.err[1] = "OpaqueDataOverflow")
            /\ (~big /\ L + 32 <= D - 64) =>
                   (~res.ok /\ res.err[1] = "PaddedOpaqueDataOverflow")
            /\ buf.opaque_data.ok <=> (~big /\ L <= D - 64 /\ D - 64 < L + 32)
            /\ buf.opaque_data.ok <=> (~big /\ D - 64 = ((L + 31) \div 32) * 32)
            /\ buf.opaque_data.ok =>
                   /\ buf.opaque_data.val = SubSeq(val.log.data, 65, 64 + L)
                   /\ res.ok \/ res.err[1] \in {"InvalidVersion", "UnexpectedOpaqueDataLen"}

C8_Witness ==
    /\ pc = "dep_decoded"
    /\ res.ok
    /\ Len(val.log.data) = 64 + 160
    /\ Slice(val.log.data, 56, 64) = LeftPad(8, <<138>>)
    /\ Len(buf.opaque_data.val) = 138

\* C9: in every transaction that decode_deposit builds, mint, eth_value and (in
\* version 1) eth_tx_value are None exactly when the low 16 bytes of their slot
\* are zero and otherwise Some of those 16 bytes, never Some(0); whatever the
\* slots hold, no error comes from them.
C9_ZeroNormalisation ==
    /\ (pc = "dep_decoded" /\ buf.deposit_tx.ok) =>
           LET o  == buf.opaque_data.val
               tx == buf.deposit_tx.val
               v1 == val.log.topics[4] = DEPOSIT_EVENT_VERSION_1
           IN  /\ (tx.mint = None) <=> (\A i \in 17..32 : o[i] = 0)
               /\ tx.mint # None => tx.mint = Some(SubSeq(o, 17, 32))
               /\ (tx.eth_value = None) <=> (\A i \in 81..96 : o[i] = 0)
               /\ tx.eth_value # None => tx.eth_value = Some(SubSeq(o, 81, 96))
               /\ v1 => ((tx.eth_tx_value = None) <=> (\A i \in 113..128 : o[i] = 0))
               /\ (v1 /\ tx.eth_tx_value # None) =>
                      tx.eth_tx_value = Some(SubSeq(o, 113, 128))
               /\ ~v1 => tx.eth_tx_value = None
               /\ Some(Zeros(16)) \notin {tx.mint, tx.eth_value, tx.eth_tx_value}
    /\ (pc = "dep_decoded" /\ buf.opaque_data.ok) =>
           /\ (/\ val.log.topics[4] = DEPOSIT_EVENT_VERSION_0
               /\ Len(buf.opaque_data.val) >= 105) => res.ok
           /\ (/\ val.log.topics[4] = DEPOSIT_EVENT_VERSION_1
               /\ Len(buf.opaque_data.val) >= 137) => res.ok
           /\ ~res.ok => res.err[1] \in {"InvalidVersion", "UnexpectedOpaqueDataLen"}

C9_Witness ==
    /\ pc = "dep_decoded"
    /\ res.ok
    /\ val.log.topics[4] = DEPOSIT_EVENT_VERSION_1
    /\ Slice(buf.opaque_data.val, 0, 32) = LeftPad(16, <<1>>) \o Zeros(16)
    /\ Slice(buf.opaque_data.val, 96, 128) = LeftPad(32, <<100>>)
    /\ buf.deposit_tx.val.mint = None
    /\ buf.deposit_tx.val.eth_tx_value = Some(LeftPad(16, <<100>>))

\* C10 as stated: a version 1 log with valid framing and opaque data of at
\* least 136 bytes decodes, with eth_tx_value present when its slot is not
\* zero; with the opaque data cut to 105 bytes it does not decode.
C10_VersionDispatch136 ==
    (/\ pc = "dep_decoded"
     /\ buf.opaque_data.ok
     /\ val.log.topics[4] = DEPOSIT_EVENT_VERSION_1) =>
        /\ Len(buf.opaque_data.val) >= 136 =>
               /\ res.ok
               /\ (\E i \in 113..128 : buf.opaque_data.val[i] # 0) =>
                      IsSome(buf.deposit_tx.val.eth_tx_value)
        /\ Len(buf.opaque_data.val) = 105 => ~res.ok

\* C10: a version 1 log with valid framing and opaque data of at least 137
\* bytes decodes, with eth_tx_value present when its slot is not zero; with
\* the opaque data cut to the version 0 minimum (105 bytes in the code, 73 in
\* the layout without eth_value) it fails with UnexpectedOpaqueDataLen.
C10_VersionDispatch ==
    (/\ pc = "dep_decoded"
     /\ buf.opaque_data.ok
     /\ val.log.topics[4] = DEPOSIT_EVENT_VERSION_1) =>
        /\ Len(buf.opaque_data.val) >= 137 =>
               /\ res.ok
               /\ (\E i \in 113..128 : buf.opaque_data.val[i] # 0) =>
                      IsSome(buf.deposit_tx.val.eth_tx_value)
        /\ Len(buf.opaque_data.val) \in {73, 105} =>
               (~res.ok /\ res.err = <<"UnexpectedOpaqueDataLen", Len(buf.opaque_data.val)>>)

C10_Witness ==
    /\ pc = "dep_decoded"
    /\ res.ok
    /\ val.log.topics[4] = DEPOSIT_EVENT_VERSION_1
    /\ Len(buf.opaque_data.val) = 137
    /\ IsSome(buf.deposit_tx.val.eth_tx_value)
    /\ res.val[1] = DEPOSIT_TX_TYPE

\* C11 as stated: the version 0 log with zero from and to topics, offset word
\* 32, length 128 and 128 zero bytes of content decodes to a deposit with
\* mint = None, value = 0, eth_value = None, gas_limit = 0, to = Create and
\* empty input.
C11_EmptyPayloadCreate ==
    (/\ pc = "dep_decoded"
     /\ val.log.topics = <<DEPOSIT_EVENT_ABI_HASH, Zeros(32), Zeros(32), DEPOSIT_EVENT_VERSION_0>>
     /\ val.log.data = LeftPad(32, <<32>>) \o LeftPad(32, <<128>>) \o Zeros(128)) =>
        /\ res.ok
        /\ buf.deposit_tx.val.mint = None
        /\ buf.deposit_tx.val.value = Zeros(32)
        /\ buf.deposit_tx.val.eth_value = None
        /\ buf.deposit_tx.val.gas_limit = Zeros(8)
        /\ buf.deposit_tx.val.to = Create
        /\ buf.deposit_tx.val.input = <<>>

\* ---------------------------------------------------------------------------
\* SystemConfig updates from L1 receipts (crates/genesis/src/system.rs)
\* ---------------------------------------------------------------------------

\* keccak256("ConfigUpdate(uint256,uint8,bytes)")
CONFIG_UPDATE_TOPIC ==
    <<29, 43, 11, 218, 33, 213, 107, 139, 209, 45, 79, 148, 235, 172, 255, 223,
      179, 95, 94, 34, 111, 132, 180, 97, 16, 59, 184, 190, 171, 99, 83, 190>>

CONFIG_UPDATE_EVENT_VERSION_0 == Zeros(32)

\* gas_limit is a u64 (8 bytes); overhead, scalar and base_fee are U256.
SystemConfig(batcher_address, overhead, scalar, gas_limit, base_fee) ==
    [batcher_address |-> batcher_address, overhead |-> overhead, scalar |-> scalar,
     gas_limit |-> gas_limit, base_fee |-> base_fee]

\* What a method taking &mut self leaves behind: the SystemConfig after the
\* call, and either the Result it returned or the fact that it panicked.
Outcome(self, ret, panic) == [self |-> self, ret |-> ret, panic |-> panic]

\* A variant of update_batcher_address that stores the low 20 bytes of the
\* address word before it checks the high 12.
update_batcher_address_early_store(self, log_data) ==
    IF Len(log_data) # 96 THEN Outcome(self, Err(<<"InvalidDataLen", Len(log_data)>>), FALSE)
    ELSE IF ~IsZero(Slice(log_data, 0, 24))
    THEN Outcome(self, Err(<<"PointerDecodingError">>), FALSE)
    ELSE IF Slice(log_data, 24, 32) # LeftPad(8, <<32>>)
    THEN Outcome(self, Err(<<"InvalidDataPointer", Slice(log_data, 24, 32)>>), FALSE)
    ELSE IF ~IsZero(Slice(log_data, 32, 56))
    THEN Outcome(self, Err(<<"LengthDecodingError">>), FALSE)
    ELSE IF Slice(log_data, 56, 64) # LeftPad(8, <<32>>)
    THEN Outcome(self, Err(<<"InvalidDataLength", Slice(log_data, 56, 64)>>), FALSE)
    ELSE IF ~IsZero(Slice(log_data, 64, 76))
    THEN Outcome([self EXCEPT !.batcher_address = Slice(log_data, 76, 96)],
                 Err(<<"BatcherAddressDecodingError">>), FALSE)
    ELSE Outcome([self EXCEPT !.batcher_address = Slice(log_data, 76, 96)],
                 Ok("Batcher", <<>>), FALSE)

\* <sol!(uint64)>::abi_decode(word, true) fails when the high 24 bytes of the
\* word are not zero; <sol!(address)> requires 12 zero bytes; <sol!(uint256)>
\* accepts every word.
update_batcher_address(self, log_data) ==
    IF Len(log_data) # 96 THEN Outcome(self, Err(<<"InvalidDataLen", Len(log_data)>>), FALSE)
    ELSE IF ~IsZero(Slice(log_data, 0, 24))
    THEN Outcome(self, Err(<<"PointerDecodingError">>), FALSE)
    ELSE IF Slice(log_data, 24, 32) # LeftPad(8, <<32>>)
    THEN Outcome(self, Err(<<"InvalidDataPointer", Slice(log_data, 24, 32)>>), FALSE)
    ELSE IF ~IsZero(Slice(log_data, 32, 56))
    THEN Outcome(self, Err(<<"LengthDecodingError">>), FALSE)
    ELSE IF Slice(log_data, 56, 64) # LeftPad(8, <<32>>)
    THEN Outcome(self, Err(<<"InvalidDataLength", Slice(log_data, 56, 64)>>), FALSE)
    ELSE IF ~IsZero(Slice(log_data, 64, 76))
    THEN Outcome(self, Err(<<"BatcherAddressDecodingError">>), FALSE)
    ELSE Outcome([self EXCEPT !.batcher_address = Slice(log_data, 76, 96)],
                 Ok("Batcher", <<>>), FALSE)

\* A variant of update_base_fee_config that decodes the length word and does
\* not compare it with 32.
update_base_fee_config_any_length(self, log_data) ==
    IF Len(log_data) # 96 THEN Outcome(self, Err(<<"InvalidDataLen", Len(log_data)>>), FALSE)
    ELSE IF ~IsZero(Slice(log_data, 0, 24))
    THEN Outcome(self, Err(<<"PointerDecodingError">>), FALSE)
    ELSE IF Slice(log_data, 24, 32) # LeftPad(8, <<32>>)
    THEN Outcome(self, Err(<<"InvalidDataPointer", Slice(log_data, 24, 32)>>), FALSE)
    ELSE IF ~IsZero(Slice(log_data, 32, 56))
    THEN Outcome(self, Err(<<"LengthDecodingError">>), FALSE)
    ELSE Outcome([self EXCEPT !.base_fee = Slice(log_data, 64, 96)],
                 Ok("BaseFee", <<>>), FALSE)

\* A variant of update_base_fee_config that stores the word as the scalar.
update_base_fee_config_as_scalar(self, log_data) ==
    IF Len(log_data) # 96 THEN Outcome(self, Err(<<"InvalidDataLen", Len(log_data)>>), FALSE)
    ELSE IF ~IsZero(Slice(log_data, 0, 24))
    THEN Outcome(self, Err(<<"PointerDecodingError">>), FALSE)
    ELSE IF Slice(log_data, 24, 32) # LeftPad(8, <<32>>)
    THEN Outcome(self, Err(<<"InvalidDataPointer", Slice(log_data, 24, 32)>>), FALSE)
    ELSE IF ~IsZero(Slice(log_data, 32, 56))
    THEN Outcome(self, Err(<<"LengthDecodingError">>), FALSE)
    ELSE IF Slice(log_data, 56, 64) # LeftPad(8, <<32>>)
    THEN Outcome(self, Err(<<"InvalidDataLength", Slice(log_data, 56, 64)>>), FALSE)
    ELSE Outcome([self EXCEPT !.scalar = Slice(log_data, 64, 96)],
                 Ok("BaseFee", <<>>), FALSE)

update_base_fee_config(self, log_data) ==
    IF Len(log_data) # 96 THEN Outcome(self, Err(<<"InvalidDataLen", Len(log_data)>>), FALSE)
    ELSE IF ~IsZero(Slice(log_data, 0, 24))
    THEN Outcome(self, Err(<<"PointerDecodingError">>), FALSE)
    ELSE IF Slice(log_data, 24, 32) # LeftPad(8, <<32>>)
    THEN Outcome(self, Err(<<"InvalidDataPointer", Slice(log_data, 24, 32)>>), FALSE)
    ELSE IF ~IsZero(Slice(log_data, 32, 56))
    THEN Outcome(self, Err(<<"LengthDecodingError">>), FALSE)
    ELSE IF Slice(log_data, 56, 64) # LeftPad(8, <<32>>)
    THEN Outcome(self, Err(<<"InvalidDataLength", Slice(log_data, 56, 64)>>), FALSE)
    ELSE Outcome([self EXCEPT !.base_fee = Slice(log_data, 64, 96)],
                 Ok("BaseFee", <<>>), FALSE)

\* A variant of update_gas_config that stores the scalar before it has
\* checked the length word.
update_gas_config_early_store(self, log_data) ==
    IF Len(log_data) # 128 THEN Outcome(self, Err(<<"InvalidDataLen", Len(log_data)>>), FALSE)
    ELSE IF ~IsZero(Slice(log_data, 0, 24))
    THEN Outcome(self, Err(<<"PointerDecodingError">>), FALSE)
    ELSE IF Slice(log_data, 24, 32) # LeftPad(8, <<32>>)
    THEN Outcome(self, Err(<<"InvalidDataPointer", Slice(log_data, 24, 32)>>), FALSE)
    ELSE IF ~IsZero(Slice(log_data, 32, 56))
    THEN Outcome([self EXCEPT !.scalar = Slice(log_data, 96, 128)],
                 Err(<<"LengthDecodingError">>), FALSE)
    ELSE IF Slice(log_data, 56, 64) # LeftPad(8, <<64>>)
    THEN Outcome([self EXCEPT !.scalar = Slice(log_data, 96, 128)],
                 Err(<<"InvalidDataLength", Slice(log_data, 56, 64)>>), FALSE)
    ELSE Outcome([self EXCEPT !.scalar = Slice(log_data, 96, 128),
                              !.overhead = Slice(log_data, 64, 96)],
                 Ok("GasConfig", <<>>), FALSE)

update_gas_config(self, log_data) ==
    IF Len(log_data) # 128 THEN Outcome(self, Err(<<"InvalidDataLen", Len(log_data)>>), FALSE)
    ELSE IF ~IsZero(Slice(log_data, 0, 24))
    THEN Outcome(self, Err(<<"PointerDecodingError">>), FALSE)
    ELSE IF Slice(log_data, 24, 32) # LeftPad(8, <<32>>)
    THEN Outcome(self, Err(<<"InvalidDataPointer", Slice(log_data, 24, 32)>>), FALSE)
    ELSE IF ~IsZero(Slice(log_data, 32, 56))
    THEN Outcome(self, Err(<<"LengthDecodingError">>), FALSE)
    ELSE IF Slice(log_data, 56, 64) # LeftPad(8, <<64>>)
    THEN Outcome(self, Err(<<"InvalidDataLength", Slice(log_data, 56, 64)>>), FALSE)
    ELSE Outcome([self EXCEPT !.scalar = Slice(log_data, 96, 128),
                              !.overhead = Slice(log_data, 64, 96)],
                 Ok("GasConfig", <<>>), FALSE)

\* U64::from(gas_limit) panics ("Uint conversion error") when the U256 does
\* not fit 64 bits, so saturating_to::<u64>() only ever sees a value that
\* fits, and returns it.
update_gas_limit(self, log_data) ==
    IF Len(log_data) # 96 THEN Outcome(self, Err(<<"InvalidDataLen", Len(log_data)>>), FALSE)
    ELSE IF ~IsZero(Slice(log_data, 0, 24))
    THEN Outcome(self, Err(<<"PointerDecodingError">>), FALSE)
    ELSE IF Slice(log_data, 24, 32) # LeftPad(8, <<32>>)
    THEN Outcome(self, Err(<<"InvalidDataPointer", Slice(log_data, 24, 32)>>), FALSE)
    ELSE IF ~IsZero(Slice(log_data, 32, 56))
    THEN Outcome(self, Err(<<"LengthDecodingError">>), FALSE)
    ELSE IF Slice(log_data, 56, 64) # LeftPad(8, <<32>>)
    THEN Outcome(self, Err(<<"InvalidDataLength", Slice(log_data, 56, 64)>>), FALSE)
    ELSE IF ~IsZero(Slice(log_data, 64, 88))
    THEN Outcome(self, NoResult, TRUE)
    ELSE Outcome([self EXCEPT !.gas_limit = Slice(log_data, 88, 96)],
                 Ok("GasLimit", <<>>), FALSE)

\* A variant of process_config_update_log that converts the update type
\* before it checks the version.
process_config_update_log_type_first(self, log) ==
    LET map_err(kind, o) ==
            IF o.panic \/ o.ret.ok THEN o
            ELSE Outcome(o.self, Err(<<kind, o.ret.err>>), FALSE)
        log_processing(e) == Outcome(self, Err(<<"LogProcessing", e>>), FALSE)
        update_type == Slice(log.topics[3], 24, 32)
    IN  IF Len(log.topics) < 3 THEN log_processing(<<"InvalidTopicLen", Len(log.topics)>>)
        ELSE IF log.topics[1] # CONFIG_UPDATE_TOPIC THEN log_processing(<<"InvalidTopic">>)
        ELSE IF ~(IsZero(Take(update_type, 7)) /\ update_type[8] \in 0..4)
        THEN log_processing(<<"InvalidSystemConfigUpdateType", update_type>>)
        ELSE IF log.topics[2] # CONFIG_UPDATE_EVENT_VERSION_0
        THEN log_processing(<<"UnsupportedVersion", log.topics[2]>>)
        ELSE IF update_type = LeftPad(8, <<0>>)
        THEN map_err("Batcher", update_batcher_address(self, log.data))
        ELSE IF update_type = LeftPad(8, <<1>>)
        THEN map_err("GasConfig", update_gas_config(self, log.data))
        ELSE IF update_type = LeftPad(8, <<2>>)
        THEN map_err("GasLimit", update_gas_limit(self, log.data))
        ELSE IF update_type = LeftPad(8, <<4>>)
        THEN map_err("BaseFee", update_base_fee_config(self, log.data))
        ELSE Outcome(self, Ok("UnsafeBlockSigner", <<>>), FALSE)

\* update_type is the u64 in the low 8 bytes of topics[2]; its conversion to
\* SystemConfigUpdateType (TryFrom<u64>) fails for every value above 4.
process_config_update_log(self, log) ==
    LET map_err(kind, o) ==
            IF o.panic \/ o.ret.ok THEN o
            ELSE Outcome(o.self, Err(<<kind, o.ret.err>>), FALSE)
        log_processing(e) == Outcome(self, Err(<<"LogProcessing", e>>), FALSE)
        update_type == Slice(log.topics[3], 24, 32)
    IN  IF Len(log.topics) < 3 THEN log_processing(<<"InvalidTopicLen", Len(log.topics)>>)
        ELSE IF log.topics[1] # CONFIG_UPDATE_TOPIC THEN log_processing(<<"InvalidTopic">>)
        ELSE IF log.topics[2] # CONFIG_UPDATE_EVENT_VERSION_0
        THEN log_processing(<<"UnsupportedVersion", log.topics[2]>>)
        ELSE IF update_type = LeftPad(8, <<0>>)
        THEN map_err("Batcher", update_batcher_address(self, log.data))
        ELSE IF update_type = LeftPad(8, <<1>>)
        THEN map_err("GasConfig", update_gas_config(self, log.data))
        ELSE IF update_type = LeftPad(8, <<2>>)
        THEN map_err("GasLimit", update_gas_limit(self, log.data))
        ELSE IF update_type = LeftPad(8, <<3>>)
        THEN Outcome(self, Ok("UnsafeBlockSigner", <<>>), FALSE)
        ELSE IF update_type = LeftPad(8, <<4>>)
        THEN map_err("BaseFee", update_base_fee_config(self, log.data))
        ELSE log_processing(<<"InvalidSystemConfigUpdateType", update_type>>)

\* A variant of the loop over a receipt's logs that skips a rejected log and
\* goes on with the next one.
RECURSIVE logs_try_for_each_skip_rejected(_, _, _)
logs_try_for_each_skip_rejected(self, logs, l1_system_config_address) ==
    LET next(o) ==
            IF o.panic THEN o
            ELSE logs_try_for_each_skip_rejected(o.self, Tail(logs), l1_system_config_address)
    IN  IF logs = <<>> THEN Outcome(self, Ok(<<>>, <<>>), FALSE)
        ELSE IF /\ Head(logs).address = l1_system_config_address
                /\ Head(logs).topics # <<>>
                /\ Head(logs).topics[1] = CONFIG_UPDATE_TOPIC
        THEN next(process_config_update_log(self, Head(logs)))
        ELSE logs_try_for_each_skip_rejected(self, Tail(logs), l1_system_config_address)

\* receipt.logs.iter().try_for_each(|log| ..)?: the logs in order; the first
\* error (or panic) of process_config_update_log ends the loop.
RECURSIVE logs_try_for_each(_, _, _)
logs_try_for_each(self, logs, l1_system_config_address) ==
    LET next(o) ==
            IF o.panic \/ ~o.ret.ok THEN o
            ELSE logs_try_for_each(o.self, Tail(logs), l1_system_config_address)
    IN  IF logs = <<>> THEN Outcome(self, Ok(<<>>, <<>>), FALSE)
        ELSE IF /\ Head(logs).address = l1_system_config_address
                /\ Head(logs).topics # <<>>
                /\ Head(logs).topics[1] = CONFIG_UPDATE_TOPIC
        THEN next(process_config_update_log(self, Head(logs)))
        ELSE logs_try_for_each(self, Tail(logs), l1_system_config_address)

\* A variant of update_with_receipts that also scans the receipts whose status
\* is failure.
RECURSIVE update_with_receipts_any_status(_, _, _)
update_with_receipts_any_status(self, receipts, l1_system_config_address) ==
    LET next(o) ==
            IF o.panic \/ ~o.ret.ok THEN o
            ELSE update_with_receipts_any_status(o.self, Tail(receipts),
                                                 l1_system_config_address)
    IN  IF receipts = <<>> THEN Outcome(self, Ok(<<>>, <<>>), FALSE)
        ELSE next(logs_try_for_each(self, Head(receipts).logs, l1_system_config_address))

\* A variant of update_with_receipts that walks the receipts from the last
\* to the first.
RECURSIVE update_with_receipts_backwards(_, _, _)
update_with_receipts_backwards(self, receipts, l1_system_config_address) ==
    LET last(o) ==
            IF o.panic \/ ~o.ret.ok THEN o
            ELSE logs_try_for_each(o.self, Head(receipts).logs, l1_system_config_address)
    IN  IF receipts = <<>> THEN Outcome(self, Ok(<<>>, <<>>), FALSE)
        ELSE IF Head(receipts).status = Eip658(FALSE)
        THEN update_with_receipts_backwards(self, Tail(receipts), l1_system_config_address)
        ELSE last(update_with_receipts_backwards(self, Tail(receipts),
                                                 l1_system_config_address))

\* The receipts in order; a receipt with status Eip658(false) is skipped.
RECURSIVE update_with_receipts(_, _, _)
update_with_receipts(self, receipts, l1_system_config_address) ==
    LET next(o) ==
            IF o.panic \/ ~o.ret.ok THEN o
            ELSE update_with_receipts(o.self, Tail(receipts), l1_system_config_address)
    IN  IF receipts = <<>> THEN Outcome(self, Ok(<<>>, <<>>), FALSE)
        ELSE IF Head(receipts).status = Eip658(FALSE)
        THEN update_with_receipts(self, Tail(receipts), l1_system_config_address)
        ELSE next(logs_try_for_each(self, Head(receipts).logs, l1_system_config_address))

\* Logs for the watched address 0x..01: updates of every type that are
\* accepted, gas limits that do not fit 64 bits, updates that are rejected at
\* each check, and logs the filter passes over (another address, no topics,
\* another event signature).
ConfigUpdateLogValues ==
    LET watched == LeftPad(20, <<1>>)
        P32 == LeftPad(32, <<32>>)
        upd(t, data) ==
            Log(watched, <<CONFIG_UPDATE_TOPIC, CONFIG_UPDATE_EVENT_VERSION_0, t>>, data)
        ty(n) == LeftPad(32, <<n>>)
    IN  { upd(ty(0), P32 \o P32 \o LeftPad(32, <<190, 239>>)),
          upd(SetByte(ty(0), 1, 255), P32 \o P32 \o LeftPad(32, <<202, 254>>)),
          upd(ty(1), P32 \o LeftPad(32, <<64>>) \o LeftPad(32, <<1, 2>>) \o LeftPad(32, <<3, 4>>)),
          upd(ty(2), P32 \o P32 \o LeftPad(32, <<190, 239>>)),
          upd(ty(2), P32 \o P32 \o LeftPad(32, [i \in 1..8 |-> 255])),
          upd(ty(3), <<>>),
          upd(ty(3), P32 \o P32 \o LeftPad(32, <<9>>)),
          upd(ty(4), P32 \o P32 \o LeftPad(32, <<7>>)),
          upd(ty(4), P32 \o P32 \o [i \in 1..32 |-> 255]),
          Log(watched, <<CONFIG_UPDATE_TOPIC, CONFIG_UPDATE_EVENT_VERSION_0, ty(4), ty(9)>>,
              P32 \o P32 \o LeftPad(32, <<5>>)) }
        \cup
        { upd(ty(2), P32 \o P32 \o LeftPad(32, <<1, 0, 0, 0, 0, 0, 0, 0, 0>>)),
          upd(ty(2), P32 \o P32 \o [i \in 1..32 |-> 255]) }
        \cup
        { Log(watched, <<CONFIG_UPDATE_TOPIC>>, P32 \o P32 \o LeftPad(32, <<190, 239>>)),
          Log(watched, <<CONFIG_UPDATE_TOPIC, ty(1)>>, <<>>),
          Log(watched, <<CONFIG_UPDATE_TOPIC, ty(1), ty(0)>>,
              P32 \o P32 \o LeftPad(32, <<190, 239>>)),
          Log(watched, <<CONFIG_UPDATE_TOPIC, ty(1), ty(5)>>, <<>>),
          upd(ty(5), P32 \o P32 \o LeftPad(32, <<190, 239>>)),
          upd(LeftPad(32, <<128, 0, 0, 0, 0, 0, 0, 2>>), <<>>),
          upd(ty(0), <<>>),
          upd(ty(0), P32 \o P32 \o Zeros(31)),
          upd(ty(0), SetByte(P32, 1, 1) \o P32 \o LeftPad(32, <<190, 239>>)),
          upd(ty(0), LeftPad(32, <<31>>) \o P32 \o LeftPad(32, <<190, 239>>)),
          upd(ty(0), P32 \o SetByte(P32, 24, 1) \o LeftPad(32, <<190, 239>>)),
          upd(ty(0), P32 \o LeftPad(32, <<33>>) \o LeftPad(32, <<190, 239>>)),
          upd(ty(0), P32 \o P32 \o [i \in 1..32 |-> 255]),
          upd(ty(1), P32 \o P32 \o LeftPad(32, <<1, 2>>)),
          upd(ty(1), P32 \o P32 \o LeftPad(32, <<1, 2>>) \o LeftPad(32, <<3, 4>>)),
          upd(ty(1), P32 \o SetByte(LeftPad(32, <<64>>), 2, 1) \o LeftPad(32, <<1, 2>>)
                     \o LeftPad(32, <<3, 4>>)),
          upd(ty(2), LeftPad(32, <<1, 0>>) \o P32 \o LeftPad(32, <<190, 239>>)),
          upd(ty(2), P32 \o P32 \o P32 \o P32),
          upd(ty(4), P32 \o LeftPad(32, <<0>>) \o LeftPad(32, <<7>>)) }
        \cup
        { Log(LeftPad(20, <<2>>), <<CONFIG_UPDATE_TOPIC, CONFIG_UPDATE_EVENT_VERSION_0, ty(0)>>,
              P32 \o P32 \o LeftPad(32, <<190, 239>>)),
          Log(LeftPad(20, <<2>>), <<CONFIG_UPDATE_TOPIC>>, <<>>),
          Log(watched, <<>>, P32 \o P32 \o LeftPad(32, <<190, 239>>)),
          Log(watched, <<DEPOSIT_EVENT_ABI_HASH, CONFIG_UPDATE_EVENT_VERSION_0, ty(0)>>,
              P32 \o P32 \o LeftPad(32, <<190, 239>>)),
          Log(watched, <<SetByte(CONFIG_UPDATE_TOPIC, 32, 0)>>, <<>>) }

\* The receipt lists: one receipt with up to two logs, two receipts with one
\* log each, of either status or with a post-state root in place of the
\* status, and a receipt with up to two logs followed by
\* a receipt with a BaseFee update of version 0 or 1.
SysInit ==
    /\ pc = "sc_start"
    /\ val \in {[config |-> c, receipts |-> rs, l1_system_config_address |-> LeftPad(20, <<1>>)] :
                  c \in {SystemConfig(Zeros(20), Zeros(32), Zeros(32), Zeros(8), Zeros(32)),
                         SystemConfig(LeftPad(20, <<170>>), LeftPad(32, <<188>>),
                                      LeftPad(32, <<15, 66, 64>>),
                                      LeftPad(8, <<1, 201, 195, 128>>),
                                      LeftPad(32, <<59, 154, 202, 0>>))},
                  rs \in {<<>>}
                         \cup {<<Receipt(s, Zeros(8), ls)>> :
                                 s \in {Eip658(TRUE), Eip658(FALSE),
                                        PostState(LeftPad(32, <<42>>))},
                                 ls \in SeqsUpTo(ConfigUpdateLogValues, 2)}
                         \cup {<<Receipt(s[1], Zeros(8), <<l1>>), Receipt(s[2], Zeros(8), <<l2>>)>> :
                                 s \in {<<Eip658(TRUE), Eip658(TRUE)>>,
                                        <<Eip658(FALSE), Eip658(TRUE)>>,
                                        <<Eip658(TRUE), Eip658(FALSE)>>,
                                        <<PostState(Zeros(32)), Eip658(FALSE)>>},
                                 l1 \in ConfigUpdateLogValues, l2 \in ConfigUpdateLogValues}
                         \cup {<<Receipt(Eip658(TRUE), Zeros(8), ls),
                                  Receipt(Eip658(TRUE), Zeros(8),
                                          <<Log(LeftPad(20, <<1>>),
                                                <<CONFIG_UPDATE_TOPIC, v, LeftPad(32, <<4>>)>>,
                                                LeftPad(32, <<32>>) \o LeftPad(32, <<32>>)
                                                \o LeftPad(32, <<7>>))>>)>> :
                                 ls \in SeqsUpTo(ConfigUpdateLogValues, 2),
                                 v \in {CONFIG_UPDATE_EVENT_VERSION_0, LeftPad(32, <<1>>)}}}
    /\ buf = <<>>
    /\ res = NoResult

\* buf is the SystemConfig the caller holds after the call (self), with the
\* fact that the call panicked; res is the Result the call returned.
UpdateWithReceipts ==
    /\ pc = "sc_start"
    /\ LET done(o) == /\ buf' = [self |-> o.self, panic |-> o.panic]
                      /\ res' = o.ret
       IN  done(update_with_receipts(val.config, val.receipts, val.l1_system_config_address))
    /\ pc' = "sc_done"
    /\ UNCHANGED val

SpecSystemConfig == SysInit /\ [][UpdateWithReceipts]_vars

\* C12: update_with_receipts is fail-stop without rollback. Taking the
\* matching logs of the receipts that are not failed, in receipt order and
\* log order, when the first k-1 are accepted and the k-th is rejected the
\* call returns the error of the k-th, and the SystemConfig is the one the
\* first k-1 logs produce: they stay applied and no later log is applied.
C12_FailStopNoRollback ==
    pc = "sc_done" =>
        LET matching ==
                SelectSeq(Concat([i \in 1..Len(val.receipts) |->
                                    IF val.receipts[i].status = Eip658(FALSE) THEN <<>>
                                    ELSE val.receipts[i].logs]),
                          LAMBDA l : /\ l.address = val.l1_system_config_address
                                     /\ l.topics # <<>>
                                     /\ l.topics[1] = CONFIG_UPDATE_TOPIC)
            after[k \in 0..Len(matching)] ==
                IF k = 0 THEN val.config
                ELSE process_config_update_log(after[k - 1], matching[k]).self
            accepted(o) == ~o.panic /\ o.ret.ok
            rejected(o) == ~o.panic /\ ~o.ret.ok
            returns(o, before) ==
                /\ ~buf.panic
                /\ ~res.ok
                /\ res.err = o.ret.err
                /\ buf.self = before
        IN  \A k \in 1..Len(matching) :
                (/\ \A j \in 1..(k - 1) :
                       accepted(process_config_update_log(after[j - 1], matching[j]))
                 /\ rejected(process_config_update_log(after[k - 1], matching[k]))) =>
                    returns(process_config_update_log(after[k - 1], matching[k]), after[k - 1])

\* A Batcher update is applied, the next log of the receipt is rejected for
\* its version, and the BaseFee update of the next receipt is not applied.
C12_Witness ==
    /\ pc = "sc_done"
    /\ Len(val.receipts) = 2
    /\ Len(val.receipts[1].logs) = 2
    /\ Len(val.receipts[1].logs[1].topics) = 3
    /\ val.receipts[1].logs[1].topics[3] = LeftPad(32, <<0>>)
    /\ val.receipts[2].logs[1].topics[2] = CONFIG_UPDATE_EVENT_VERSION_0
    /\ ~buf.panic
    /\ ~res.ok
    /\ res.err[1] = "LogProcessing"
    /\ res.err[2][1] = "UnsupportedVersion"
    /\ res.err[2][2] = LeftPad(32, <<1>>)
    /\ val.config.batcher_address = Zeros(20)
    /\ buf.self.batcher_address = LeftPad(20, <<190, 239>>)
    /\ val.config.base_fee = Zeros(32)
    /\ buf.self.base_fee = Zeros(32)

\* C13 as stated: whenever update_with_receipts returns an error, the
\* SystemConfig equals its value from before the call.
C13_AllOrNothing ==
    (pc = "sc_done" /\ ~buf.panic /\ ~res.ok) => buf.self = val.config

\* C13: each log succeeds fully or fails fully. Whenever update_with_receipts
\* returns an error, the rejected log has changed no field: the SystemConfig
\* is its value from before the call with the field groups of the n matching
\* logs accepted before the rejected one replaced, in order, by their data
\* words (so it is the value from before the call when n = 0).
C13_RejectedLogLeavesNothing ==
    (pc = "sc_done" /\ ~buf.panic /\ ~res.ok) =>
        LET matching ==
                SelectSeq(Concat([i \in 1..Len(val.receipts) |->
                                    IF val.receipts[i].status = Eip658(FALSE) THEN <<>>
                                    ELSE val.receipts[i].logs]),
                          LAMBDA l : /\ l.address = val.l1_system_config_address
                                     /\ l.topics # <<>>
                                     /\ l.topics[1] = CONFIG_UPDATE_TOPIC)
            ok(o) == ~o.panic /\ o.ret.ok
            n == CHOOSE n \in 0..Len(matching) :
                     /\ \A j \in 1..n : ok(process_config_update_log(val.config, matching[j]))
                     /\ n < Len(matching) =>
                            ~ok(process_config_update_log(val.config, matching[n + 1]))
            set(c, t, data) ==
                IF t = 0 THEN [c EXCEPT !.batcher_address = Slice(data, 76, 96)]
                ELSE IF t = 1 THEN [c EXCEPT !.overhead = Slice(data, 64, 96),
                                             !.scalar = Slice(data, 96, 128)]
                ELSE IF t = 2 THEN [c EXCEPT !.gas_limit = Slice(data, 88, 96)]
                ELSE IF t = 4 THEN [c EXCEPT !.base_fee = Slice(data, 64, 96)]
                ELSE c
            applied[k \in 0..n] ==
                IF k = 0 THEN val.config
                ELSE set(applied[k - 1], matching[k].topics[3][32], matching[k].data)
        IN  /\ n < Len(matching)
            /\ buf.self = applied[n]

\* A GasConfig update is applied and the next log, a Batcher update, is
\* rejected for the high bytes of its pointer word: the call returns the error
\* and the new overhead and scalar stay.
C13_Witness ==
    /\ pc = "sc_done"
    /\ ~buf.panic
    /\ ~res.ok
    /\ res.err[1] = "Batcher"
    /\ res.err[2] = <<"PointerDecodingError">>
    /\ val.config.overhead = Zeros(32)
    /\ buf.self.overhead = LeftPad(32, <<1, 2>>)
    /\ buf.self.scalar = LeftPad(32, <<3, 4>>)
    /\ buf.self.batcher_address = val.config.batcher_address

\* C14: an accepted config-update log changes only the field group of its
\* update type. For a call with a single log, which matches and is accepted:
\* Batcher sets batcher_address to the low 20 bytes of the third data word,
\* GasConfig sets overhead and scalar to the third and fourth data words,
\* GasLimit changes gas_limit at most, BaseFee sets base_fee to the third data
\* word, UnsafeBlockSigner changes nothing, and every other field keeps its
\* value.
C14_FieldGroups ==
    (/\ pc = "sc_done"
     /\ Len(val.receipts) = 1
     /\ val.receipts[1].status # Eip658(FALSE)
     /\ Len(val.receipts[1].logs) = 1
     /\ val.receipts[1].logs[1].address = val.l1_system_config_address
     /\ Len(val.receipts[1].logs[1].topics) >= 3
     /\ val.receipts[1].logs[1].topics[1] = CONFIG_UPDATE_TOPIC
     /\ ~buf.panic
     /\ res.ok) =>
        LET t == val.receipts[1].logs[1].topics[3][32]
            data == val.receipts[1].logs[1].data
        IN  /\ t \in 0..4
            /\ buf.self.batcher_address =
                   IF t = 0 THEN SubSeq(data, 77, 96) ELSE val.config.batcher_address
            /\ buf.self.overhead =
                   IF t = 1 THEN SubSeq(data, 65, 96) ELSE val.config.overhead
            /\ buf.self.scalar =
                   IF t = 1 THEN SubSeq(data, 97, 128) ELSE val.config.scalar
            /\ t # 2 => buf.self.gas_limit = val.config.gas_limit
            /\ buf.self.base_fee =
                   IF t = 4 THEN SubSeq(data, 65, 96) ELSE val.config.base_fee

\* A BaseFee update of all ones on the configuration with every field set.
C14_Witness ==
    /\ pc = "sc_done"
    /\ Len(val.receipts) = 1
    /\ val.receipts[1].status = Eip658(TRUE)
    /\ Len(val.receipts[1].logs) = 1
    /\ ~buf.panic
    /\ res.ok
    /\ val.config.base_fee = LeftPad(32, <<59, 154, 202, 0>>)
    /\ buf.self.base_fee = [i \in 1..32 |-> 255]
    /\ buf.self.scalar = LeftPad(32, <<15, 66, 64>>)
    /\ buf.self.overhead = LeftPad(32, <<188>>)
    /\ buf.self.batcher_address = LeftPad(20, <<170>>)
    /\ buf.self.gas_limit = LeftPad(8, <<1, 201, 195, 128>>)

\* C15: GasLimit saturation. A call with a single GasLimit update log of
\* well-formed framing (96 bytes, pointer 32, length 32) carrying the 256-bit
\* value v completes successfully, and sets gas_limit to v when v fits 64 bits
\* and to 2^64-1 otherwise; for no v does it fail or abort.
C15_GasLimitSaturation ==
    (/\ pc = "sc_done"
     /\ Len(val.receipts) = 1
     /\ val.receipts[1].status # Eip658(FALSE)
     /\ Len(val.receipts[1].logs) = 1
     /\ val.receipts[1].logs[1].address = val.l1_system_config_address
     /\ Len(val.receipts[1].logs[1].topics) >= 3
     /\ val.receipts[1].logs[1].topics[1] = CONFIG_UPDATE_TOPIC
     /\ val.receipts[1].logs[1].topics[2] = CONFIG_UPDATE_EVENT_VERSION_0
     /\ SubSeq(val.receipts[1].logs[1].topics[3], 25, 32) = LeftPad(8, <<2>>)
     /\ Len(val.receipts[1].logs[1].data) = 96
     /\ SubSeq(val.receipts[1].logs[1].data, 1, 64) = LeftPad(32, <<32>>) \o LeftPad(32, <<32>>)) =>
        /\ ~buf.panic
        /\ res.ok
        /\ buf.self.gas_limit =
               IF IsZero(SubSeq(val.receipts[1].logs[1].data, 65, 88))
               THEN SubSeq(val.receipts[1].logs[1].data, 89, 96)
               ELSE [i \in 1..8 |-> 255]

\* C16: filtering. The logs of a receipt whose status is failure, and the
\* logs from another address, without topics or with another topics[0], are
\* ignored: the call ends as the call on the receipts without them does, with
\* the same SystemConfig and the same result. When no log is left (as for an
\* empty receipt list) the call returns Ok and the SystemConfig is unchanged.
C16_Filtering ==
    pc = "sc_done" =>
        LET matches(l) == /\ l.address = val.l1_system_config_address
                          /\ l.topics # <<>>
                          /\ l.topics[1] = CONFIG_UPDATE_TOPIC
            kept == SelectSeq([i \in 1..Len(val.receipts) |->
                                 Receipt(val.receipts[i].status,
                                         val.receipts[i].cumulative_gas_used,
                                         SelectSeq(val.receipts[i].logs, matches))],
                              LAMBDA r : r.status # Eip658(FALSE))
            same(o) == /\ buf.self = o.self
                       /\ buf.panic = o.panic
                       /\ res.ok = o.ret.ok
                       /\ (~o.panic /\ ~res.ok /\ ~o.ret.ok) => res.err = o.ret.err
        IN  /\ same(update_with_receipts(val.config, kept, val.l1_system_config_address))
            /\ (\A i \in 1..Len(kept) : kept[i].logs = <<>>) =>
                   (res.ok /\ ~buf.panic /\ buf.self = val.config)

\* A failed receipt with a matching log of one topic, then a receipt with a
\* Batcher update: the call returns Ok and the batcher address is set.
C16_Witness ==
    /\ pc = "sc_done"
    /\ Len(val.receipts) = 2
    /\ val.receipts[1].status = Eip658(FALSE)
    /\ val.receipts[1].logs[1].address = val.l1_system_config_address
    /\ val.receipts[1].logs[1].topics = <<CONFIG_UPDATE_TOPIC>>
    /\ val.receipts[2].status = Eip658(TRUE)
    /\ ~buf.panic
    /\ res.ok
    /\ val.config.batcher_address = LeftPad(20, <<170>>)
    /\ buf.self = [val.config EXCEPT !.batcher_address = LeftPad(20, <<190, 239>>)]

\* C17: validation of a matching log, for a call with that single log. With
\* n < 3 topics it is rejected with LogProcessing(InvalidTopicLen(n)); else
\* with topics[1] not zero, with LogProcessing(UnsupportedVersion(topics[1]));
\* else with a discriminant d (the low 8 bytes of topics[2]) above 4, with
\* LogProcessing(InvalidSystemConfigUpdateType(d)), whatever the data are. A
\* Batcher, GasConfig, GasLimit or BaseFee payload error is returned only
\* once these checks have passed, for the type its discriminant names.
C17_LogValidationOrder ==
    (/\ pc = "sc_done"
     /\ Len(val.receipts) = 1
     /\ val.receipts[1].status # Eip658(FALSE)
     /\ Len(val.receipts[1].logs) = 1
     /\ val.receipts[1].logs[1].address = val.l1_system_config_address
     /\ val.receipts[1].logs[1].topics # <<>>
     /\ val.receipts[1].logs[1].topics[1] = CONFIG_UPDATE_TOPIC) =>
        LET topics == val.receipts[1].logs[1].topics
            rejected(e) == ~buf.panic /\ ~res.ok /\ res.err = <<"LogProcessing", e>>
            d == SubSeq(topics[3], 25, 32)
            kinds == <<"Batcher", "GasConfig", "GasLimit", "UnsafeBlockSigner", "BaseFee">>
        IN  IF Len(topics) < 3 THEN rejected(<<"InvalidTopicLen", Len(topics)>>)
            ELSE IF topics[2] # Zeros(32) THEN rejected(<<"UnsupportedVersion", topics[2]>>)
            ELSE IF ~IsZero(SubSeq(d, 1, 7)) \/ d[8] > 4
            THEN rejected(<<"InvalidSystemConfigUpdateType", d>>)
            ELSE (~buf.panic /\ ~res.ok) =>
                     (d[8] # 3 /\ res.err[1] = kinds[d[8] + 1])

\* The discriminant 2^63 + 2 with empty data is rejected with its raw value.
C17_Witness ==
    /\ pc = "sc_done"
    /\ Len(val.receipts) = 1
    /\ Len(val.receipts[1].logs) = 1
    /\ val.receipts[1].logs[1].data = <<>>
    /\ ~buf.panic
    /\ ~res.ok
    /\ res.err[1] = "LogProcessing"
    /\ res.err[2][1] = "InvalidSystemConfigUpdateType"
    /\ res.err[2][2] = <<128, 0, 0, 0, 0, 0, 0, 2>>
    /\ buf.self = val.config

\* C18: selector-length coupling. L1BlockInfoBedrock::decode_calldata rejects
\* every input that is not 260 bytes long with InvalidLength naming 260 and
\* the length of the input, L1BlockInfoEcotone::decode_calldata every input
\* that is not 164 bytes long with InvalidLength naming 164 and the length of
\* the input; neither reads a longer input up to its length nor pads a
\* shorter one.
C18_InvalidLength ==
    /\ (pc = "l1_raw_bedrock" /\ Len(val.raw) # 260) =>
           (~res.ok /\ res.err = <<"InvalidLength", "Bedrock", 260, Len(val.raw)>>)
    /\ (pc = "l1_raw_ecotone" /\ Len(val.raw) # 164) =>
           (~res.ok /\ res.err = <<"InvalidLength", "Ecotone", 164, Len(val.raw)>>)

\* The encoding of an Ecotone value with one more byte, given to the Ecotone
\* decoder.
C18_Witness ==
    /\ pc = "l1_raw_ecotone"
    /\ Len(val.raw) = 165
    /\ SubSeq(val.raw, 1, 4) = L1_INFO_TX_SELECTOR_ECOTONE
    /\ ~res.ok
    /\ res.err = <<"InvalidLength", "Ecotone", 164, 165>>

\* C19: L1BlockInfoTx::decode_calldata, given an input with the Bedrock
\* selector that is not 260 bytes long, or with the Ecotone selector that is
\* not 164 bytes long, fails with an error of the kind InvalidLength that
\* carries the expected and the actual length.
C19_DispatchInvalidLength ==
    (/\ pc = "l1_raw_decoded"
     /\ Len(val.raw) >= 4) =>
        /\ (SubSeq(val.raw, 1, 4) = L1_INFO_TX_SELECTOR_BEDROCK /\ Len(val.raw) # 260) =>
               (/\ ~res.ok
                /\ res.err[1] = "InvalidLength"
                /\ res.err[3] = 260
                /\ res.err[4] = Len(val.raw))
        /\ (SubSeq(val.raw, 1, 4) = L1_INFO_TX_SELECTOR_ECOTONE /\ Len(val.raw) # 164) =>
               (/\ ~res.ok
                /\ res.err[1] = "InvalidLength"
                /\ res.err[3] = 164
                /\ res.err[4] = Len(val.raw))

\* C20: L1BlockInfoTx::decode_calldata returns InvalidSelector exactly for
\* the inputs of at least 4 bytes whose first 4 bytes are neither selector,
\* whatever their length, and a decoded value is of the variant its selector
\* names.
C20_InvalidSelector ==
    /\ pc = "l1_raw_decoded" =>
           /\ (~res.ok /\ res.err = <<"InvalidSelector">>)
                  <=> (/\ Len(val.raw) >= 4
                       /\ SubSeq(val.raw, 1, 4) \notin {L1_INFO_TX_SELECTOR_BEDROCK,
                                                         L1_INFO_TX_SELECTOR_ECOTONE})
           /\ res.ok =>
                  res.val.variant = IF SubSeq(val.raw, 1, 4) = L1_INFO_TX_SELECTOR_BEDROCK
                                    THEN "Bedrock" ELSE "Ecotone"
    /\ pc = "l1_decoded" =>
           (res.ok /\ res.val.variant = IF SubSeq(buf, 1, 4) = L1_INFO_TX_SELECTOR_BEDROCK
                                         THEN "Bedrock" ELSE "Ecotone")

\* A 260-byte input that is the encoding of a Bedrock value but for the first
\* byte of its selector.
C20_Witness ==
    /\ pc = "l1_raw_decoded"
    /\ Len(val.raw) = 260
    /\ val.raw[1] = 255
    /\ SubSeq(val.raw, 2, 4) = SubSeq(L1_INFO_TX_SELECTOR_BEDROCK, 2, 4)
    /\ ~res.ok
    /\ res.err = <<"InvalidSelector">>

\* ---------------------------------------------------------------------------
\* The L1 info deposit transaction (crates/protocol/src/block_info.rs,
\* L1BlockInfoTx::try_new and try_new_with_deposit_tx)
\* ---------------------------------------------------------------------------

REGOLITH_SYSTEM_TX_GAS == 1000000

L1_BLOCK_ADDRESS == <<66>> \o Zeros(18) \o <<21>>

L1_INFO_DEPOSITOR_ADDRESS ==
    <<222, 173, 222, 173, 222, 173, 222, 173, 222, 173, 222, 173, 222, 173, 222, 173,
      222, 173, 0, 1>>

\* A variant of is_regolith_active that is true only after regolith_time.
is_regolith_active_after(rollup_config, timestamp) ==
    IF rollup_config.regolith_time = None THEN FALSE
    ELSE timestamp > rollup_config.regolith_time[1]

\* self.regolith_time.map_or(false, |t| timestamp >= t)
is_regolith_active(rollup_config, timestamp) ==
    IF rollup_config.regolith_time = None THEN FALSE
    ELSE timestamp >= rollup_config.regolith_time[1]

\* l1_header holds number, timestamp, base_fee_per_gas (an Option) and hash,
\* the value of hash_slow().
try_new(system_config, sequence_number, l1_header) ==
    Ok(Bedrock(L1BlockInfoBedrock(
           l1_header.number,
           l1_header.timestamp,
           IF l1_header.base_fee_per_gas = None THEN Zeros(8)
           ELSE l1_header.base_fee_per_gas[1],
           l1_header.hash,
           sequence_number,
           system_config.batcher_address,
           system_config.overhead,
           system_config.scalar)), <<>>)

\* gas_limit: 150_000_000 is 0x08f0d180. seal_slow() adds the hash of the
\* transaction, which is left out.
try_new_with_deposit_tx(rollup_config, system_config, sequence_number, l1_header, l2_block_time) ==
    LET deposit_tx(l1_info) ==
            TxDeposit(source_hash(L1InfoDepositSource(l1_info.info.block_hash, sequence_number)),
                      L1_INFO_DEPOSITOR_ADDRESS,
                      Call(L1_BLOCK_ADDRESS),
                      None,
                      Zeros(32),
                      IF is_regolith_active(rollup_config, l2_block_time)
                      THEN LeftPad(8, NatBytes(REGOLITH_SYSTEM_TX_GAS))
                      ELSE LeftPad(8, <<8, 240, 209, 128>>),
                      ~is_regolith_active(rollup_config, l2_block_time),
                      None,
                      L1BlockInfoTx_encode_calldata(l1_info),
                      None)
        with(r) == IF ~r.ok THEN r
                   ELSE Ok([l1_info |-> r.val, deposit_tx |-> deposit_tx(r.val)], <<>>)
    IN  with(try_new(system_config, sequence_number, l1_header))

\* Timestamps are small numbers; the other u64 values are 8 bytes.
TryNewInit ==
    /\ pc = "tn_start"
    /\ val \in {[rollup_config |-> [regolith_time |-> rt],
                  system_config |-> sc,
                  sequence_number |-> sq,
                  l1_header |-> [number |-> n, timestamp |-> LeftPad(8, <<101, 2, 3, 4>>),
                                 base_fee_per_gas |-> bf, hash |-> h],
                  l2_block_time |-> t] :
                  rt \in {None, Some(0), Some(10)},
                  sc \in {SystemConfig(Zeros(20), Zeros(32), Zeros(32), Zeros(8), Zeros(32)),
                          SystemConfig(LeftPad(20, <<170>>), LeftPad(32, <<188>>),
                                       LeftPad(32, <<15, 66, 64>>),
                                       LeftPad(8, <<1, 201, 195, 128>>),
                                       LeftPad(32, <<59, 154, 202, 0>>))},
                  sq \in {Zeros(8), LeftPad(8, <<1>>)},
                  n \in {Zeros(8), [i \in 1..8 |-> 255]},
                  bf \in {None, Some(LeftPad(8, <<7>>))},
                  h \in {Zeros(32), [i \in 1..32 |-> 17 * ((i % 15) + 1)]},
                  t \in {0, 9, 10, 11}}
    /\ buf = <<>>
    /\ res = NoResult

TryNewWithDepositTx ==
    /\ pc = "tn_start"
    /\ res' = try_new_with_deposit_tx(val.rollup_config, val.system_config,
                                      val.sequence_number, val.l1_header, val.l2_block_time)
    /\ pc' = "tn_done"
    /\ UNCHANGED <<val, buf>>

SpecTryNew == TryNewInit /\ [][TryNewWithDepositTx]_vars

\* C21: try_new_with_deposit_tx never fails. It returns a Bedrock info made
\* of the header's number, timestamp, base fee (0 when absent) and hash, the
\* sequence number and the system config's batcher address, overhead and
\* scalar, and a deposit from the depositor address to the L1 block contract
\* with no mint, eth_value or eth_tx_value, value 0, the calldata of the info
\* as input and the L1 info source hash of (header hash, sequence number).
\* When regolith_time is Some(t) and l2_block_time >= t the deposit is no
\* system transaction and has gas limit 1_000_000; otherwise it is a system
\* transaction with gas limit 150_000_000.
C21_TryNewWithDepositTx ==
    pc = "tn_done" =>
        /\ res.ok
        /\ res.val.l1_info.variant = "Bedrock"
        /\ res.val.l1_info.info.number = val.l1_header.number
        /\ res.val.l1_info.info.time = val.l1_header.timestamp
        /\ res.val.l1_info.info.base_fee =
               IF IsSome(val.l1_header.base_fee_per_gas)
               THEN val.l1_header.base_fee_per_gas[1] ELSE Zeros(8)
        /\ res.val.l1_info.info.block_hash = val.l1_header.hash
        /\ res.val.l1_info.info.sequence_number = val.sequence_number
        /\ res.val.l1_info.info.batcher_address = val.system_config.batcher_address
        /\ res.val.l1_info.info.l1_fee_overhead = val.system_config.overhead
        /\ res.val.l1_info.info.l1_fee_scalar = val.system_config.scalar
        /\ res.val.deposit_tx.from = L1_INFO_DEPOSITOR_ADDRESS
        /\ res.val.deposit_tx.to = Call(L1_BLOCK_ADDRESS)
        /\ res.val.deposit_tx.mint = None
        /\ res.val.deposit_tx.eth_value = None
        /\ res.val.deposit_tx.eth_tx_value = None
        /\ res.val.deposit_tx.value = Zeros(32)
        /\ res.val.deposit_tx.input = L1BlockInfoBedrock_encode_calldata(res.val.l1_info.info)
        /\ res.val.deposit_tx.source_hash =
               L1InfoDepositSource_source_hash(
                   L1InfoDepositSource(val.l1_header.hash, val.sequence_number))
        /\ IF /\ IsSome(val.rollup_config.regolith_time)
              /\ val.l2_block_time >= val.rollup_config.regolith_time[1]
           THEN /\ ~res.val.deposit_tx.is_system_transaction
                /\ res.val.deposit_tx.gas_limit = <<0, 0, 0, 0, 0, 15, 66, 64>>
           ELSE /\ res.val.deposit_tx.is_system_transaction
                /\ res.val.deposit_tx.gas_limit = <<0, 0, 0, 0, 8, 240, 209, 128>>

\* Regolith activates at 10 and the L2 block time is 10; the header has no
\* base fee.
C21_Witness ==
    /\ pc = "tn_done"
    /\ val.rollup_config.regolith_time = Some(10)
    /\ val.l2_block_time = 10
    /\ val.l1_header.base_fee_per_gas = None
    /\ res.ok
    /\ ~res.val.deposit_tx.is_system_transaction
    /\ res.val.deposit_tx.gas_limit = <<0, 0, 0, 0, 0, 15, 66, 64>>
    /\ Len(res.val.deposit_tx.input) = 260
    /\ res.val.l1_info.info.base_fee = Zeros(8)

\* C22: TxDeposit::rlp_decode scopes field decoding to the list payload. It
\* fails with UnexpectedString when the header is not a list, with
\* InputTooShort when the payload is longer than the buffer, and with
\* UnexpectedLength when the fields and the payload do not end together; given
\* the encoding of a transaction followed by further bytes it returns the
\* transaction and leaves exactly those bytes unread, also when eth_tx_value
\* is absent.
C22_PayloadScoped ==
    pc = "stream_decoded" =>
        /\ buf.shape = "string" => (~res.ok /\ res.err = "UnexpectedString")
        /\ buf.shape = "cut" => (~res.ok /\ res.err = "InputTooShort")
        /\ (buf.shape = "longer" /\ IsSome(val.eth_tx_value)) =>
               (~res.ok /\ res.err = "UnexpectedLength")
        /\ buf.shape = "followed" =>
               /\ res.ok
               /\ res.val = val
               /\ res.rest = buf.extra

\* C23: MantleDepositReceipt::rlp_decode_with_bloom decides the presence of
\* the tail fields from the list payload alone. On a wire of base fields and
\* up to six well-formed tail items, followed by further bytes, it returns
\* the receipt with exactly those tail fields and leaves the further bytes
\* unread; with more than six items in the payload it fails with
\* UnexpectedLength,
\* under a string header with UnexpectedString, and without its last byte
\* with InputTooShort.
C23_ReceiptPayloadScoped ==
    (/\ pc = "rc_raw_decoded"
     /\ \A i \in 1..Len(val.items) :
            val.items[i].enc \in {<<128>>, <<5>>, <<137, 1, 0, 0, 0, 0, 0, 0, 0, 0>>}) =>
        LET tail(r) == <<r.deposit_nonce, r.deposit_receipt_version, r.l1_gas_price,
                         r.l1_gas_used, r.l1_fee, r.token_ratio>>
            fits(i) == Len(val.items[i].v) <= IF i <= 2 THEN 8 ELSE 16
        IN  /\ val.shape = "string" => (~res.ok /\ res.err = "UnexpectedString")
            /\ val.shape = "cut" => (~res.ok /\ res.err = "InputTooShort")
            /\ (val.shape = "list" /\ Len(val.items) > 6 /\ \A i \in 1..6 : fits(i)) =>
                   (~res.ok /\ res.err = "UnexpectedLength")
            /\ (val.shape = "list" /\ Len(val.items) <= 6
                 /\ \A i \in 1..Len(val.items) : fits(i)) =>
                   /\ res.ok
                   /\ res.rest = val.extra
                   /\ Len(buf) - Len(res.rest) =
                          3 + HeaderDecode(buf).val.payload_length
                   /\ res.val.receipt.inner = val.inner
                   /\ res.val.logs_bloom = val.bloom
                   /\ \A i \in 1..6 : IsSome(tail(res.val.receipt)[i]) <=> i <= Len(val.items)

\* Two tail items, then the bytes 05 05 of the outer stream.
C23_Witness ==
    /\ pc = "rc_raw_decoded"
    /\ val.shape = "list"
    /\ Len(val.items) = 2
    /\ val.extra = <<5, 5>>
    /\ res.ok
    /\ res.rest = <<5, 5>>
    /\ IsSome(res.val.receipt.deposit_receipt_version)
    /\ ~IsSome(res.val.receipt.l1_gas_price)

(***************************************************************************)
(* Batch::decode                                                           *)
(***************************************************************************)
\* SingleBatch::decode, the single-batch RLP decoder: the single batch is a
\* timestamp and a transaction list, read from an RLP list of a u64 and a
\* list of byte strings.
SingleBatch_decode(b) ==
    LET RECURSIVE transactions_items(_, _)
        transactions_items(p, acc) ==
            LET next(r) ==
                    IF ~r.ok THEN r ELSE transactions_items(r.rest, Append(acc, r.val))
            IN  IF p = <<>> THEN Ok(acc, <<>>) ELSE next(BytesDecode(p))
        rest_of(p, items) == IF ~items.ok THEN items ELSE Ok(items.val, p.rest)
        items_of(p) == IF ~p.ok THEN p ELSE rest_of(p, transactions_items(p.val, <<>>))
        f_timestamp(a) == Then(a, UintDecode(a.rest, 8))
        f_transactions(a) == Then(a, items_of(DecodeBytes(a.rest, TRUE)))
        batch(h, a) ==
            IF ~a.ok THEN a
            ELSE IF Len(h.rest) - Len(a.rest) # h.val.payload_length
                 THEN Err("ListLengthMismatch")
            ELSE Ok([timestamp |-> a.val[1], transactions |-> a.val[2]], a.rest)
        fields(h) ==
            IF ~h.ok THEN h
            ELSE IF ~h.val.list THEN Err("UnexpectedString")
            ELSE batch(h, f_transactions(f_timestamp(Ok(<<>>, h.rest))))
    IN  fields(HeaderDecode(b))

\* A decoder that reads the type of the batch without advancing past it, so
\* that the single-batch decoder starts at the leading byte.
Batch_decode_peek(r, cfg) ==
    LET single(x) ==
            [ret |-> IF ~x.ok THEN Err(<<"AlloyRlpError", x.err>>)
                     ELSE Ok(<<"Single", x.val>>, <<>>),
             r |-> IF x.ok THEN x.rest ELSE r]
    IN  IF r = <<>> THEN [ret |-> Err(<<"EmptyBuffer">>), r |-> r]
        ELSE single(SingleBatch_decode(r))

\* Batch::decode on r: &mut &[u8]. ret is the Result; r is the buffer after
\* the call when it returns EmptyBuffer or Ok, and the buffer after
\* r.advance(1), which SingleBatch::decode started from, when that fails.
Batch_decode(r, cfg) ==
    LET single(x) ==
            [ret |-> IF ~x.ok THEN Err(<<"AlloyRlpError", x.err>>)
                     ELSE Ok(<<"Single", x.val>>, <<>>),
             r |-> IF x.ok THEN x.rest ELSE Drop(r, 1)]
    IN  IF r = <<>> THEN [ret |-> Err(<<"EmptyBuffer">>), r |-> r]
        ELSE single(SingleBatch_decode(Drop(r, 1)))

\* The start of a Batch::decode call: the empty buffer, and one leading byte
\* before a single batch that decodes, before one followed by a further byte,
\* and before bytes that the single-batch decoder rejects.
BatchInit ==
    /\ pc = "batch_start"
    /\ LET fields(ts, txs) ==
               UintEncode(ts) \o HeaderEncode(TRUE, Len(Concat([i \in 1..Len(txs) |-> BytesEncode(txs[i])])))
                   \o Concat([i \in 1..Len(txs) |-> BytesEncode(txs[i])])
           list(f) == HeaderEncode(TRUE, Len(f)) \o f
           call(t, rt, shape, ts, txs, tail) ==
               [r |-> <<t>> \o tail, cfg |-> [regolith_time |-> rt], shape |-> shape,
                timestamp |-> ts, transactions |-> txs]
           shapes(ts, txs) ==
               {<<"exact", list(fields(ts, txs))>>,
                <<"followed", list(fields(ts, txs)) \o <<5>>>>,
                <<"cut", Take(list(fields(ts, txs)), Len(list(fields(ts, txs))) - 1)>>,
                <<"string", HeaderEncode(FALSE, Len(fields(ts, txs))) \o fields(ts, txs)>>,
                <<"longer", HeaderEncode(TRUE, Len(fields(ts, txs)) + 1) \o fields(ts, txs)
                            \o <<5>>>>,
                <<"no timestamp", list(Drop(fields(ts, txs), Len(UintEncode(ts))))>>,
                <<"nothing", <<>>>>}
       IN  val \in {[r |-> <<>>, cfg |-> [regolith_time |-> rt], shape |-> "empty",
                     timestamp |-> Zeros(8), transactions |-> <<>>] : rt \in {None, Some(10)}}
                   \cup UNION {{call(t, rt, sh[1], ts, txs, sh[2]) :
                                   t \in {0, 1, 192}, rt \in {None, Some(10)},
                                   sh \in shapes(ts, txs)} :
                                ts \in {Zeros(8), LeftPad(8, <<101, 2, 3, 4>>)},
                                txs \in {<<>>, <<<<126, 1>>>>, <<<<2>>, <<>>>>,
                                         <<<<126, 248, 1>>, <<200>>, <<1, 2>>>>}}
    /\ buf = <<>>
    /\ res = NoResult

\* res is the Result returned and buf.r the buffer the caller holds after the
\* call. When SingleBatch::decode fails, the place in its input where it
\* stopped is not fixed: buf.r is any of that input's suffixes.
BatchDecode ==
    /\ pc = "batch_start"
    /\ LET done(o) ==
               /\ res' = o.ret
               /\ \E k \in 0..Len(o.r) :
                      /\ (k > 0 => (val.r # <<>> /\ ~o.ret.ok))
                      /\ buf' = [r |-> Drop(o.r, k)]
       IN  done(Batch_decode(val.r, val.cfg))
    /\ pc' = "batch_done"
    /\ UNCHANGED val

SpecBatch == BatchInit /\ [][BatchDecode]_vars

\* C24: Batch::decode fails with EmptyBuffer on an empty buffer and reads
\* nothing. On any other buffer it reads the leading byte, whatever its
\* value and whatever the rollup config, and returns what SingleBatch::decode
\* returns on the bytes after it, as Batch::Single or as AlloyRlpError: the
\* batch of the timestamp and transactions encoded there, with the bytes
\* after the list unread, or the error of a cut list, a string header, a
\* payload longer than its items or a missing timestamp; on an error the
\* unread buffer is a suffix of the bytes after the leading one.
C24_BatchDecode ==
    pc = "batch_done" =>
        LET tail == SubSeq(val.r, 2, Len(val.r))
            same(s) ==
                /\ res.ok = s.ok
                /\ s.ok => (res.val = <<"Single", s.val>> /\ buf.r = s.rest)
                /\ ~s.ok =>
                       /\ res.err = <<"AlloyRlpError", s.err>>
                       /\ Len(buf.r) <= Len(tail)
                       /\ buf.r = SubSeq(tail, Len(tail) - Len(buf.r) + 1, Len(tail))
            batch == <<"Single", [timestamp |-> val.timestamp,
                                  transactions |-> val.transactions]>>
        IN  /\ val.r = <<>> => (~res.ok /\ res.err = <<"EmptyBuffer">> /\ buf.r = <<>>)
            /\ val.r # <<>> => same(SingleBatch_decode(tail))
            /\ val.shape = "exact" => (res.ok /\ res.val = batch /\ buf.r = <<>>)
            /\ val.shape = "followed" => (res.ok /\ res.val = batch /\ buf.r = <<5>>)
            /\ val.shape \in {"cut", "nothing"} =>
                   (~res.ok /\ res.err = <<"AlloyRlpError", "InputTooShort">>)
            /\ val.shape = "string" =>
                   (~res.ok /\ res.err = <<"AlloyRlpError", "UnexpectedString">>)
            /\ val.shape = "longer" =>
                   (~res.ok /\ res.err = <<"AlloyRlpError", "ListLengthMismatch">>)
            /\ val.shape = "no timestamp" => ~res.ok

\* Leading byte 1, then a single batch of three transactions and one further
\* byte, which stays unread.
C24_Witness ==
    /\ pc = "batch_done"
    /\ val.shape = "followed"
    /\ val.r[1] = 1
    /\ res.ok
    /\ res.val[1] = "Single"
    /\ res.val[2].transactions = <<<<126, 248, 1>>, <<200>>, <<1, 2>>>>
    /\ res.val[2].timestamp = LeftPad(8, <<101, 2, 3, 4>>)
    /\ buf.r = <<5>>

\* C25 as stated: the checks of decode_deposit in the order topic count, event
\* signature, data length, alignment, version, offset and length framing,
\* version layout, the first one that fails giving the error; a log of an
\* unknown version is rejected with InvalidVersion(topics[3]) whatever its
\* offset and length words.
C25_VersionBeforeFraming ==
    pc = "dep_decoded" =>
        LET t == val.log.topics
            d == val.log.data
            known == t[4] \in {DEPOSIT_EVENT_VERSION_0, DEPOSIT_EVENT_VERSION_1}
            shape ==
                IF Len(t) # 4 THEN "UnexpectedTopicsLen"
                ELSE IF t[1] # DEPOSIT_EVENT_ABI_HASH THEN "InvalidSelector"
                ELSE IF Len(d) < 64 THEN "IncompleteOpaqueData"
                ELSE IF Len(d) % 32 # 0 THEN "UnalignedData"
                ELSE "passed"
            framing ==
                IF Slice(d, 24, 32) # <<0, 0, 0, 0, 0, 0, 0, 32>> THEN "InvalidOpaqueDataOffset"
                ELSE IF ExceedsLength(Slice(d, 56, 64), Len(d) - 64) THEN "OpaqueDataOverflow"
                ELSE IF AsLength(Slice(d, 56, 64)) + 32 <= Len(d) - 64
                     THEN "PaddedOpaqueDataOverflow"
                ELSE "passed"
            first ==
                IF shape # "passed" THEN shape
                ELSE IF ~known THEN "InvalidVersion"
                ELSE IF framing # "passed" THEN framing
                ELSE "layout"
        IN  /\ first = "layout" => (res.ok \/ res.err[1] = "UnexpectedOpaqueDataLen")
            /\ first # "layout" => (~res.ok /\ res.err[1] = first)
            /\ first = "InvalidVersion" => res.err = <<"InvalidVersion", t[4]>>

\* C25: the checks of decode_deposit are made in the order topic count, event
\* signature, data length, alignment, offset and length framing, version,
\* version layout, and the first one that fails gives the error; a log of an
\* unknown version is rejected with InvalidVersion(topics[3]) when its
\* framing is valid and with the framing error otherwise.
C25_CheckOrder ==
    pc = "dep_decoded" =>
        LET t == val.log.topics
            d == val.log.data
            known == t[4] \in {DEPOSIT_EVENT_VERSION_0, DEPOSIT_EVENT_VERSION_1}
            shape ==
                IF Len(t) # 4 THEN "UnexpectedTopicsLen"
                ELSE IF t[1] # DEPOSIT_EVENT_ABI_HASH THEN "InvalidSelector"
                ELSE IF Len(d) < 64 THEN "IncompleteOpaqueData"
                ELSE IF Len(d) % 32 # 0 THEN "UnalignedData"
                ELSE "passed"
            framing ==
                IF Slice(d, 24, 32) # <<0, 0, 0, 0, 0, 0, 0, 32>> THEN "InvalidOpaqueDataOffset"
                ELSE IF ExceedsLength(Slice(d, 56, 64), Len(d) - 64) THEN "OpaqueDataOverflow"
                ELSE IF AsLength(Slice(d, 56, 64)) + 32 <= Len(d) - 64
                     THEN "PaddedOpaqueDataOverflow"
                ELSE "passed"
            first ==
                IF shape # "passed" THEN shape
                ELSE IF framing # "passed" THEN framing
                ELSE IF ~known THEN "InvalidVersion"
                ELSE "layout"
        IN  /\ first = "layout" => (res.ok \/ res.err[1] = "UnexpectedOpaqueDataLen")
            /\ first # "layout" => (~res.ok /\ res.err[1] = first)
            /\ first = "InvalidVersion" => res.err = <<"InvalidVersion", t[4]>>

\* A log of version 2 whose offset word holds 31: the offset is reported.
C25_Witness ==
    /\ pc = "dep_decoded"
    /\ Len(val.log.topics) = 4
    /\ val.log.topics[4] = LeftPad(32, <<2>>)
    /\ Len(val.log.data) = 64 + 128
    /\ Slice(val.log.data, 24, 32) = <<0, 0, 0, 0, 0, 0, 0, 31>>
    /\ ~res.ok
    /\ res.err = <<"InvalidOpaqueDataOffset", <<0, 0, 0, 0, 0, 0, 0, 31>>>>

\* C26: a config-update log that process_config_update_log rejects leaves
\* every field of the SystemConfig as it was before that log, and a log that
\* changes overhead or scalar is a GasConfig update that sets both to its two
\* data words. Checked on every log of the call, from the configuration before
\* the call and from the one after it, and on the call itself when its only
\* log is rejected.
C26_PerEventAtomicity ==
    pc = "sc_done" =>
        LET frame(c, l, o) ==
                /\ (o.panic \/ ~o.ret.ok) => o.self = c
                /\ (o.self.overhead # c.overhead \/ o.self.scalar # c.scalar) =>
                       /\ o.ret.ok
                       /\ Slice(l.topics[3], 24, 32) = LeftPad(8, <<1>>)
                       /\ o.self.overhead = Slice(l.data, 64, 96)
                       /\ o.self.scalar = Slice(l.data, 96, 128)
        IN  /\ \A i \in 1..Len(val.receipts) :
                   \A j \in 1..Len(val.receipts[i].logs) :
                       \A c \in {val.config, buf.self} :
                           frame(c, val.receipts[i].logs[j],
                                 process_config_update_log(c, val.receipts[i].logs[j]))
            /\ (/\ Len(val.receipts) = 1
                /\ Len(val.receipts[1].logs) = 1
                /\ ~buf.panic
                /\ ~res.ok) => buf.self = val.config

\* A Batcher update whose address word is all ones is the only log of the
\* call: it is rejected and the batcher address stays.
C26_Witness ==
    /\ pc = "sc_done"
    /\ Len(val.receipts) = 1
    /\ Len(val.receipts[1].logs) = 1
    /\ val.receipts[1].logs[1].data =
           LeftPad(32, <<32>>) \o LeftPad(32, <<32>>) \o [i \in 1..32 |-> 255]
    /\ ~buf.panic
    /\ ~res.ok
    /\ res.err[1] = "Batcher"
    /\ val.config.batcher_address = LeftPad(20, <<170>>)
    /\ buf.self.batcher_address = LeftPad(20, <<170>>)

\* C27: last writer wins. After update_with_receipts returns Ok, take the
\* matching logs of the receipts that are not failed, in receipt order and log
\* order: batcher_address, overhead and scalar, gas_limit and base_fee each
\* hold the data of the last of these logs that has their update type, or the
\* value from before the call when no log has it.
C27_LastWriterWins ==
    (pc = "sc_done" /\ ~buf.panic /\ res.ok) =>
        LET matching ==
                SelectSeq(Concat([i \in 1..Len(val.receipts) |->
                                    IF val.receipts[i].status = Eip658(FALSE) THEN <<>>
                                    ELSE val.receipts[i].logs]),
                          LAMBDA l : /\ l.address = val.l1_system_config_address
                                     /\ l.topics # <<>>
                                     /\ l.topics[1] = CONFIG_UPDATE_TOPIC)
            of_type(t) == {k \in 1..Len(matching) : matching[k].topics[3][32] = t}
            last(t) == matching[CHOOSE k \in of_type(t) : \A j \in of_type(t) : j <= k].data
        IN  /\ buf.self.batcher_address =
                   IF of_type(0) = {} THEN val.config.batcher_address
                   ELSE Slice(last(0), 76, 96)
            /\ buf.self.overhead =
                   IF of_type(1) = {} THEN val.config.overhead ELSE Slice(last(1), 64, 96)
            /\ buf.self.scalar =
                   IF of_type(1) = {} THEN val.config.scalar ELSE Slice(last(1), 96, 128)
            /\ buf.self.gas_limit =
                   IF of_type(2) = {} THEN val.config.gas_limit ELSE Slice(last(2), 88, 96)
            /\ buf.self.base_fee =
                   IF of_type(4) = {} THEN val.config.base_fee ELSE Slice(last(4), 64, 96)

\* Two receipts with a BaseFee update each, of 7 and then of all ones, on the
\* configuration with every field set: the base fee is all ones.
C27_Witness ==
    /\ pc = "sc_done"
    /\ ~buf.panic
    /\ res.ok
    /\ Len(val.receipts) = 2
    /\ val.receipts[1].status = Eip658(TRUE)
    /\ val.receipts[2].status = Eip658(TRUE)
    /\ Len(val.receipts[1].logs) = 1
    /\ Len(val.receipts[1].logs[1].data) = 96
    /\ Slice(val.receipts[1].logs[1].data, 64, 96) = LeftPad(32, <<7>>)
    /\ Len(val.receipts[2].logs[1].data) = 96
    /\ Slice(val.receipts[2].logs[1].data, 64, 96) = [i \in 1..32 |-> 255]
    /\ buf.self.base_fee = [i \in 1..32 |-> 255]
    /\ buf.self.batcher_address = LeftPad(20, <<170>>)

\* C28: fixed-shape validation of the update payloads. For a call whose only
\* log matches, has version 0 and type Batcher, GasConfig, GasLimit or BaseFee:
\* the data must be 96 bytes (GasConfig 128), its first word 32 and its second
\* word 32 (GasConfig 64); otherwise the call returns the error of that type
\* with InvalidDataLen(len), PointerDecodingError, InvalidDataPointer(p),
\* LengthDecodingError or InvalidDataLength(l), whichever check fails first in
\* this order, and no field changes. A Batcher address word with a non-zero
\* high 12 bytes gives BatcherAddressDecodingError and no change. A field
\* changes only when the shape is valid.
C28_FixedShape ==
    (/\ pc = "sc_done"
     /\ Len(val.receipts) = 1
     /\ val.receipts[1].status # Eip658(FALSE)
     /\ Len(val.receipts[1].logs) = 1
     /\ val.receipts[1].logs[1].address = val.l1_system_config_address
     /\ Len(val.receipts[1].logs[1].topics) >= 3
     /\ val.receipts[1].logs[1].topics[1] = CONFIG_UPDATE_TOPIC
     /\ val.receipts[1].logs[1].topics[2] = CONFIG_UPDATE_EVENT_VERSION_0
     /\ IsZero(Slice(val.receipts[1].logs[1].topics[3], 24, 31))
     /\ val.receipts[1].logs[1].topics[3][32] \in {0, 1, 2, 4}) =>
        LET t == val.receipts[1].logs[1].topics[3][32]
            d == val.receipts[1].logs[1].data
            kind == IF t = 0 THEN "Batcher" ELSE IF t = 1 THEN "GasConfig"
                    ELSE IF t = 2 THEN "GasLimit" ELSE "BaseFee"
            size == IF t = 1 THEN 128 ELSE 96
            words == IF t = 1 THEN 64 ELSE 32
            shape ==
                IF Len(d) # size THEN <<"InvalidDataLen", Len(d)>>
                ELSE IF ~IsZero(SubSeq(d, 1, 24)) THEN <<"PointerDecodingError">>
                ELSE IF SubSeq(d, 25, 32) # <<0, 0, 0, 0, 0, 0, 0, 32>>
                     THEN <<"InvalidDataPointer", SubSeq(d, 25, 32)>>
                ELSE IF ~IsZero(SubSeq(d, 33, 56)) THEN <<"LengthDecodingError">>
                ELSE IF SubSeq(d, 57, 64) # <<0, 0, 0, 0, 0, 0, 0, words>>
                     THEN <<"InvalidDataLength", SubSeq(d, 57, 64)>>
                ELSE IF t = 0 /\ ~IsZero(SubSeq(d, 65, 76))
                     THEN <<"BatcherAddressDecodingError">>
                ELSE <<>>
        IN  /\ shape # <<>> =>
                   /\ ~buf.panic
                   /\ ~res.ok
                   /\ res.err = <<kind, shape>>
                   /\ buf.self = val.config
            /\ (shape = <<>> /\ ~buf.panic) => res.ok
            /\ buf.self # val.config => shape = <<>>

\* A BaseFee update with pointer 32 and length word 0 on the configuration
\* with every field set: InvalidDataLength(0), and the base fee stays.
C28_Witness ==
    /\ pc = "sc_done"
    /\ Len(val.receipts) = 1
    /\ Len(val.receipts[1].logs) = 1
    /\ val.receipts[1].logs[1].data =
           LeftPad(32, <<32>>) \o Zeros(32) \o LeftPad(32, <<7>>)
    /\ ~buf.panic
    /\ ~res.ok
    /\ res.err = <<"BaseFee", <<"InvalidDataLength", Zeros(8)>>>>
    /\ val.config.base_fee = LeftPad(32, <<59, 154, 202, 0>>)
    /\ buf.self = val.config

\* C29: whenever decode_deposit succeeds its output is the byte 0x7e and an
\* RLP list that TxDeposit::rlp_decode decodes, with nothing left over, to the
\* transaction decode_deposit built: the source hash of
\* UserDepositSource(block_hash, index), from the low 20 bytes of topics[1],
\* is_system_transaction false, to = Call(low 20 bytes of topics[2]) when the
\* isCreation byte is 0 and Create otherwise, and mint, value, eth_value,
\* eth_tx_value (absent in version 0), gas_limit and input as the opaque data
\* holds them, input being every byte after the isCreation byte.
C29_OutputDecodesBack ==
    (pc = "dep_decoded" /\ res.ok) =>
        LET o == buf.opaque_data.val
            v1 == val.log.topics[4] = DEPOSIT_EVENT_VERSION_1
            k == IF v1 THEN 136 ELSE 104
            opt(slot) == IF IsZero(slot) THEN None ELSE Some(slot)
            built(tx) ==
                /\ tx.ok
                /\ tx.rest = <<>>
                /\ tx.val = buf.deposit_tx.val
                /\ tx.val.source_hash =
                       UserDepositSource_source_hash(UserDepositSource(val.block_hash, val.index))
                /\ tx.val.from = SubSeq(val.log.topics[2], 13, 32)
                /\ tx.val.is_system_transaction = FALSE
                /\ tx.val.to = IF o[k + 1] = 0 THEN Call(SubSeq(val.log.topics[3], 13, 32))
                               ELSE Create
                /\ tx.val.mint = opt(SubSeq(o, 17, 32))
                /\ tx.val.value = SubSeq(o, 33, 64)
                /\ tx.val.eth_value = opt(SubSeq(o, 81, 96))
                /\ tx.val.eth_tx_value = IF v1 THEN opt(SubSeq(o, 113, 128)) ELSE None
                /\ tx.val.gas_limit = SubSeq(o, k - 7, k)
                /\ tx.val.input = SubSeq(o, k + 2, Len(o))
        IN  /\ res.val[1] = 126
            /\ built(rlp_decode(Drop(res.val, 1)))

\* A version 0 log with isCreation byte 2, mint 100 and three bytes of input:
\* the output decodes back to a Create with that mint and input.
C29_Witness ==
    /\ pc = "dep_decoded"
    /\ res.ok
    /\ val.log.topics[4] = DEPOSIT_EVENT_VERSION_0
    /\ Len(buf.opaque_data.val) = 108
    /\ buf.opaque_data.val[105] = 2
    /\ res.val[1] = 126
    /\ rlp_decode(Drop(res.val, 1)).ok
    /\ rlp_decode(Drop(res.val, 1)).val.to = Create
    /\ rlp_decode(Drop(res.val, 1)).val.mint = Some(LeftPad(16, <<100>>))
    /\ rlp_decode(Drop(res.val, 1)).val.input = <<1, 2, 3>>
    /\ rlp_decode(Drop(res.val, 1)).val.eth_tx_value = None

\* C30: unmarshal_deposit_version0 needs 73 bytes of opaque data. Called by
\* decode_deposit on a version 0 log with valid framing, it returns
\* UnexpectedOpaqueDataLen(n) for opaque data of n <= 72 bytes and succeeds on
\* 73 bytes, with to = Call(low 20 bytes of topics[2]) when the isCreation
\* byte, the last of the 73, is 0.
C30_Version0Minimum73 ==
    (/\ pc = "dep_decoded"
     /\ buf.opaque_data.ok
     /\ val.log.topics[4] = DEPOSIT_EVENT_VERSION_0) =>
        /\ Len(buf.opaque_data.val) <= 72 =>
               /\ ~buf.deposit_tx.ok
               /\ buf.deposit_tx.err = <<"UnexpectedOpaqueDataLen", Len(buf.opaque_data.val)>>
        /\ Len(buf.opaque_data.val) = 73 =>
               /\ buf.deposit_tx.ok
               /\ buf.opaque_data.val[73] = 0 =>
                      buf.deposit_tx.val.to = Call(SubSeq(val.log.topics[3], 13, 32))

====
